---- MODULE Spec2Model ----
(***************************************************************************)
(* The retrying HTTP request executor of package httputil                  *)
(* (src/httputil/request.go, src/httputil/client.go): one call of          *)
(* HTTPUtil.doRequest on one client, with the caller's context, the        *)
(* server's per-attempt outcomes and the jitter drawn as the environment.  *)
(* A second specification, SpecClient, is the construction of a client by  *)
(* NewHTTPUtil from an override, followed by direct calls of               *)
(* h.shouldRetry.  Further specifications, each introduced where it is     *)
(* defined, cover the hook setters (SpecHooks, SpecNilHook), fairness      *)
(* (FairSpec), concurrent calls (SpecConcurrent), the public entry points  *)
(* (SpecEntry), long waits (SpecLongWait), several clients                 *)
(* (SpecInstances), two executions of one call (SpecTwoRuns) and the       *)
(* caller's override after construction (SpecCaller).                      *)
(*                                                                         *)
(* Durations.  time.Duration and int are 64-bit in the program, beyond     *)
(* what TLC's integers hold, so the model keeps the arithmetic and scales  *)
(* the numbers: one unit of Duration is half a second (Second == 2) and    *)
(* the signed range is MinInt64..MaxInt64 with MaxInt64 == 127.  Every     *)
(* Duration product or sum wraps into that range exactly as int64 wraps.   *)
(***************************************************************************)
EXTENDS Integers, Sequences, FiniteSets, TLC

\* ------------------------------------------------------------------ bounds
\* Largest MaxRetries a client of the model is configured with.
MaxRetriesBound == 2
\* Longest Retry-After header value (in characters) a server of the model sends.
MaxHeaderLen == 2
\* Most fields an override passed to NewHTTPUtil sets (leaves non-zero).
MaxOverridden == 2

\* ------------------------------------------------------- program constants
\* time.Second, in model units of Duration (scaled, see above).
Second == 2
\* The largest int64 (scaled, see above); int and time.Duration share it.
MaxInt64 == 127
MinInt64 == -MaxInt64 - 1
\* http.StatusTooManyRequests
StatusTooManyRequests == 429
\* The fallback rate-limit wait, in seconds: rateLimitWait := 60 * time.Second
DefaultRateLimitSeconds == 60

\* int64 wrap-around of an arithmetic result.
WrapInt64(x) == ((x - MinInt64) % (MaxInt64 - MinInt64 + 1)) + MinInt64

\* ----------------------------------------------------------------- values
\* An error value; n carries the %d of a formatted message.
Err(type, n) == [type |-> type, n |-> n]
NilErr == Err("nil", 0)

\* A *http.Response: nil, or a status with the value of its Retry-After
\* header ("" when the header is absent, as Header.Get reports it).
NilResp == [isNil |-> TRUE, StatusCode |-> 0, RetryAfter |-> <<>>]
Response(status, retryAfter) ==
    [isNil |-> FALSE, StatusCode |-> status, RetryAfter |-> retryAfter]

\* DefaultHTTPConfig().RetryOnStatus
DefaultRetryOnStatus == {408, 429, 500, 502, 503, 504}

\* ------------------------------------------------------ environment inputs
\* Client settings the model is run with (the fields of HTTPUtil are
\* exported and NewHTTPUtil passes non-zero overrides through unchecked).
MaxRetriesSet == -2 .. MaxRetriesBound
InitialWaitSet == {-11, 0, 11, 30}
MaxWaitSet == {-3, 12}
RetryOnStatusSet == {DefaultRetryOnStatus, {404, 500}}

\* Request inputs.
Methods == {"", "GET"}
URLs == {"", "http://example.com", "://invalid-url"}
NilBody == [isNil |-> TRUE, data |-> <<>>, fails |-> FALSE]
Bodies == {NilBody,
           [isNil |-> FALSE, data |-> <<1, 2>>, fails |-> FALSE],
           [isNil |-> FALSE, data |-> <<1, 2>>, fails |-> TRUE]}
Contexts == {"nil", "cancellable"}

\* Retry-After header values: strings over a small alphabet.
HeaderChars == {"1", "7", "-"}
Headers == UNION {[1 .. n -> HeaderChars] : n \in 0 .. MaxHeaderLen}

\* Statuses the server answers with.
ServerStatuses == {200, 404, 429, 500}

\* What h.Client.Do can return while the context is not done: a response
\* and no error, a transport error and no response, or (CheckRedirect
\* failing) the last redirect response together with an error.
Outcomes ==
    {[resp |-> Response(s, <<>>), err |-> NilErr] :
        s \in ServerStatuses \ {StatusTooManyRequests}}
    \cup {[resp |-> Response(500, <<"7">>), err |-> NilErr]}
    \cup {[resp |-> Response(StatusTooManyRequests, ra), err |-> NilErr] :
        ra \in Headers}
    \cup {[resp |-> NilResp, err |-> Err("transport", 0)],
          [resp |-> Response(302, <<>>), err |-> Err("redirect", 0)]}

\* What h.Client.Do returns once the request's context is done.
ContextOutcome == [resp |-> NilResp, err |-> Err("context", 0)]

\* ------------------------------------------------------ the configuration
\* NewHTTPUtil compares the durations of a configuration with zero and
\* copies them, it does no arithmetic on them: they are kept at the values
\* the source writes, in units of Second.
Minute == 60 * Second

\* A []int: nil, or the values it holds.
NilSlice == [isNil |-> TRUE, vals |-> {}]
Slice(vals) == [isNil |-> FALSE, vals |-> vals]

\* DefaultHTTPConfig()
DefaultHTTPConfig ==
    [isNil |-> FALSE,
     ClientTimeout |-> 10 * Minute,
     DisableCompression |-> FALSE,
     ForceAttemptHTTP2 |-> TRUE,
     MaxIdleConnsPerHost |-> 20,
     MaxIdleConns |-> 100,
     IdleConnTimeout |-> 90 * Second,
     TLSHandshakeTimeout |-> 30 * Second,
     ExpectContinueTimeout |-> 1 * Second,
     ResponseHeaderTimeout |-> 60 * Second,
     MaxRetries |-> 5,
     InitialWait |-> 5 * Second,
     MaxWait |-> 60 * Second,
     RetryOnStatus |-> Slice(DefaultRetryOnStatus)]

\* A nil *HTTPConfig.
NilConfig ==
    [isNil |-> TRUE,
     ClientTimeout |-> 0,
     DisableCompression |-> FALSE,
     ForceAttemptHTTP2 |-> FALSE,
     MaxIdleConnsPerHost |-> 0,
     MaxIdleConns |-> 0,
     IdleConnTimeout |-> 0,
     TLSHandshakeTimeout |-> 0,
     ExpectContinueTimeout |-> 0,
     ResponseHeaderTimeout |-> 0,
     MaxRetries |-> 0,
     InitialWait |-> 0,
     MaxWait |-> 0,
     RetryOnStatus |-> NilSlice]

\* The int and time.Duration fields of HTTPConfig.
NumericFields ==
    {"ClientTimeout", "MaxIdleConnsPerHost", "MaxIdleConns",
     "IdleConnTimeout", "TLSHandshakeTimeout", "ExpectContinueTimeout",
     "ResponseHeaderTimeout", "MaxRetries", "InitialWait", "MaxWait"}

\* Fields the override c sets, that is, leaves different from the zero value.
Overridden(c) ==
    Cardinality({f \in NumericFields : c[f] # 0})
    + (IF c.RetryOnStatus.isNil THEN 0 ELSE 1)

\* The overrides NewHTTPUtil is called with: nil, or a configuration whose
\* fields are zero, positive or negative, with any booleans.
Configs ==
    {NilConfig}
    \cup {c \in [isNil : {FALSE},
                 ClientTimeout : {0, -Second, 30 * Second},
                 DisableCompression : BOOLEAN,
                 ForceAttemptHTTP2 : BOOLEAN,
                 MaxIdleConnsPerHost : {0, 10},
                 MaxIdleConns : {0, -1},
                 IdleConnTimeout : {0, 60 * Second},
                 TLSHandshakeTimeout : {0, -5 * Second},
                 ExpectContinueTimeout : {0, 2 * Second},
                 ResponseHeaderTimeout : {0, 30 * Second},
                 MaxRetries : {0, -1, 3},
                 InitialWait : {0, -Second, Second},
                 MaxWait : {0, -Second, 10 * Second},
                 RetryOnStatus : {NilSlice, Slice({}), Slice({404, 500})}] :
              Overridden(c) <= MaxOverridden}

\* Mutant of Override: only a positive value overrides the default.
Override_PositiveOnly(d, v) == IF v > 0 THEN v ELSE d

\* if config.X != 0 { defaults.X = config.X }
Override(d, v) == IF v # 0 THEN v ELSE d

\* Mutant of OverrideSlice: an empty list does not override the default.
OverrideSlice_NonEmptyOnly(d, v) == IF v.vals # {} THEN v ELSE d

\* if config.RetryOnStatus != nil { defaults.RetryOnStatus = config.RetryOnStatus }
OverrideSlice(d, v) == IF ~v.isNil THEN v ELSE d

\* Mutant of OverrideBool: a false flag does not override a true default.
OverrideBool_TrueOnly(d, v) == d \/ v

\* defaults.X = config.X, for the two boolean fields
OverrideBool(d, v) == v

\* Lines 96-135 of NewHTTPUtil: the defaults, overlaid with the override.
ResolveConfig(c) ==
    LET d == DefaultHTTPConfig
    IN IF c.isNil THEN d
       ELSE [isNil |-> FALSE,
             ClientTimeout |-> Override(d.ClientTimeout, c.ClientTimeout),
             MaxIdleConnsPerHost |->
                 Override(d.MaxIdleConnsPerHost, c.MaxIdleConnsPerHost),
             MaxIdleConns |-> Override(d.MaxIdleConns, c.MaxIdleConns),
             IdleConnTimeout |->
                 Override(d.IdleConnTimeout, c.IdleConnTimeout),
             TLSHandshakeTimeout |->
                 Override(d.TLSHandshakeTimeout, c.TLSHandshakeTimeout),
             ExpectContinueTimeout |->
                 Override(d.ExpectContinueTimeout, c.ExpectContinueTimeout),
             ResponseHeaderTimeout |->
                 Override(d.ResponseHeaderTimeout, c.ResponseHeaderTimeout),
             MaxRetries |-> Override(d.MaxRetries, c.MaxRetries),
             InitialWait |-> Override(d.InitialWait, c.InitialWait),
             MaxWait |-> Override(d.MaxWait, c.MaxWait),
             RetryOnStatus |->
                 OverrideSlice(d.RetryOnStatus, c.RetryOnStatus),
             DisableCompression |->
                 OverrideBool(d.DisableCompression, c.DisableCompression),
             ForceAttemptHTTP2 |->
                 OverrideBool(d.ForceAttemptHTTP2, c.ForceAttemptHTTP2)]

\* NewHTTPUtil(logger, config): the client built from the resolved
\* configuration, with the default hooks set.
NewHTTPUtil(c) ==
    LET defaults == ResolveConfig(c)
    IN [Client |->
            [Timeout |-> defaults.ClientTimeout,
             Transport |->
                 [DisableCompression |-> defaults.DisableCompression,
                  ForceAttemptHTTP2 |-> defaults.ForceAttemptHTTP2,
                  MaxIdleConnsPerHost |-> defaults.MaxIdleConnsPerHost,
                  MaxIdleConns |-> defaults.MaxIdleConns,
                  IdleConnTimeout |-> defaults.IdleConnTimeout,
                  TLSHandshakeTimeout |-> defaults.TLSHandshakeTimeout,
                  ExpectContinueTimeout |-> defaults.ExpectContinueTimeout,
                  ResponseHeaderTimeout |->
                      defaults.ResponseHeaderTimeout]],
        MaxRetries |-> defaults.MaxRetries,
        InitialWait |-> defaults.InitialWait,
        MaxWait |-> defaults.MaxWait,
        RequestTimeout |-> 0,
        RetryOnStatus |-> defaults.RetryOnStatus.vals,
        RetryHook |-> "default",
        SuccessHook |-> "default"]

\* The client before NewHTTPUtil has returned it.
NoClient == [MaxRetries |-> 0, InitialWait |-> 0, MaxWait |-> 0,
             RetryOnStatus |-> {}, RetryHook |-> "default",
             SuccessHook |-> "default"]

\* Direct calls of h.shouldRetry: any status with or without an error, a
\* nil response with an error.  (With a nil response and a nil error the
\* method dereferences nil; http.Client.Do never returns that pair.)
ShouldRetryStatuses == {200, 404, 408, 429, 500, 502, 503, 504}
ShouldRetryInputs ==
    {<<Response(s, <<>>), e>> :
        s \in ShouldRetryStatuses, e \in {NilErr, Err("transport", 0)}}
    \cup {<<NilResp, Err("transport", 0)>>}

\* -------------------------------------------------------------- the state
VARIABLES
    h,            \* the client: MaxRetries, InitialWait, MaxWait, RetryOnStatus
    callerCtx,    \* the context the caller passes: "nil" or "cancellable"
    ctxDone,      \* the caller's context is done
    pc,           \* where doRequest is
    opts,         \* RequestOptions of the call
    bodyBytes,    \* the body captured at entry
    err,          \* the function-scope err (line 72)
    loopErr,      \* the err declared inside the loop body (line 106)
    resp,         \* the function-scope resp (line 74)
    attempt,      \* the loop counter
    currentWait,  \* the base wait
    waitTime,     \* the wait chosen for the select
    result,       \* what doRequest returned
    requests,     \* history: calls of h.Client.Do so far
    retryHookLog, \* history: attempt indices RetryHook was called with
    successHookCalls, \* history: calls of SuccessHook
    lastOutcome,  \* history: what the latest h.Client.Do returned
    retryable,    \* history: completed attempts whose outcome was retryable
    rateLimited,  \* history: the wait chosen is the rate-limit wait
    waited,       \* history: the wait that has just elapsed
    cancelAt,     \* history: where the call was when the context became done
    bodyReads,    \* history: reads of the caller's body reader (io.ReadAll)
    sent,         \* history: the requests handed to h.Client.Do, in order
    retryHookCall,   \* history: the RetryHook call of this loop iteration
    successHookCall, \* history: the SuccessHook call of this call
    config,       \* the override NewHTTPUtil was called with (SpecClient)
    decision,     \* history: the latest direct call of h.shouldRetry
    lastStatus,   \* history: status of the latest response any attempt got
    hooksInvoked, \* history: the hook functions this call has called
    logFields,    \* history: what the default retry hook logged this iteration
    entry,        \* history: the entry point the call was made through
    calls,        \* the calls running concurrently (SpecConcurrent)
    instances,    \* the clients constructed so far (SpecInstances)
    invocation,   \* history: the latest hook a request called (SpecInstances)
    runs          \* two executions of one call, side by side (SpecTwoRuns)

vars == <<h, callerCtx, ctxDone, pc, opts, bodyBytes, err, loopErr, resp,
          attempt, currentWait, waitTime, result, requests, retryHookLog,
          successHookCalls, lastOutcome, retryable, rateLimited, waited,
          cancelAt, bodyReads, sent, retryHookCall, successHookCall, config,
          decision, lastStatus, hooksInvoked, logFields, entry, calls,
          instances, invocation, runs>>

NoOpts == [Method |-> "", URL |-> "", Body |-> NilBody, Context |-> "nil"]
NoBytes == [isNil |-> TRUE, data |-> <<>>]
NoResult == [kind |-> "none", resp |-> NilResp, err |-> NilErr,
             URL |-> "", Method |-> "", Attempts |-> 0, LastStatus |-> 0,
             LastError |-> NilErr]
NoOutcome == [resp |-> NilResp, err |-> NilErr]
NoWait == [valid |-> FALSE, dur |-> 0, rateLimited |-> FALSE, base |-> 0,
           status |-> 0, retryAfter |-> <<>>]
NoCancel == [at |-> "never", requests |-> 0, hooks |-> 0]
NoRetryHookCall == [called |-> FALSE, attempt |-> 0, resp |-> NilResp,
                    err |-> NilErr]
NoSuccessHookCall == [called |-> FALSE, resp |-> NilResp, opts |-> NoOpts]
NoDecision == [called |-> FALSE, resp |-> NilResp, err |-> NilErr,
               retry |-> FALSE]
NoLogFields == [logged |-> FALSE, attempt |-> 0, max |-> 0, wait |-> 0,
                hasError |-> FALSE, error |-> NilErr,
                hasStatus |-> FALSE, status |-> 0]
NoEntry == [point |-> "none", url |-> "", body |-> NilBody,
            headers |-> <<>>, ctx |-> "nil", options |-> NoOpts]
NoCalls == <<>>
NoInstances == <<>>
NoRuns == <<>>
NoInvocation == [instance |-> 0, slot |-> "none", hook |-> "none",
                 logger |-> "none", max |-> 0]

Init ==
    /\ h \in [MaxRetries : MaxRetriesSet, InitialWait : InitialWaitSet,
              MaxWait : MaxWaitSet, RetryOnStatus : RetryOnStatusSet,
              RetryHook : {"default"}, SuccessHook : {"default"}]
    /\ callerCtx \in Contexts
    /\ ctxDone = FALSE
    /\ pc = "idle"
    /\ opts = NoOpts
    /\ bodyBytes = NoBytes
    /\ err = NilErr
    /\ loopErr = NilErr
    /\ resp = NilResp
    /\ attempt = 0
    /\ currentWait = 0
    /\ waitTime = 0
    /\ result = NoResult
    /\ requests = 0
    /\ retryHookLog = <<>>
    /\ successHookCalls = 0
    /\ lastOutcome = NoOutcome
    /\ retryable = 0
    /\ rateLimited = FALSE
    /\ waited = NoWait
    /\ cancelAt = NoCancel
    /\ bodyReads = 0
    /\ sent = <<>>
    /\ retryHookCall = NoRetryHookCall
    /\ successHookCall = NoSuccessHookCall
    /\ config = NilConfig
    /\ decision = NoDecision
    /\ lastStatus = 0
    /\ hooksInvoked = {}
    /\ logFields = NoLogFields
    /\ entry = NoEntry
    /\ calls = NoCalls
    /\ instances = NoInstances
    /\ invocation = NoInvocation
    /\ runs = NoRuns

\* --------------------------------------------------------- pure functions
\* strconv.Atoi on the header value: an optional sign, then decimal digits;
\* anything else, or a value outside the int range, is an error.
DecimalDigits == <<"0", "1", "2", "3", "4", "5", "6", "7", "8", "9">>
DigitValue(c) ==
    IF \E i \in 1 .. 10 : DecimalDigits[i] = c
    THEN (CHOOSE i \in 1 .. 10 : DecimalDigits[i] = c) - 1
    ELSE -1

RECURSIVE DigitsValue(_)
DigitsValue(s) ==
    IF s = <<>> THEN 0
    ELSE LET p == DigitsValue(SubSeq(s, 1, Len(s) - 1))
             d == DigitValue(s[Len(s)])
         IN IF p < 0 \/ d < 0 THEN -1 ELSE 10 * p + d

Atoi(s) ==
    LET signed == Len(s) > 0 /\ s[1] \in {"-", "+"}
        neg == Len(s) > 0 /\ s[1] = "-"
        digits == IF signed THEN Tail(s) ELSE s
        v == DigitsValue(digits)
    IN IF digits = <<>> \/ v < 0 THEN [ok |-> FALSE, val |-> 0]
       ELSE IF neg /\ -v >= MinInt64 THEN [ok |-> TRUE, val |-> -v]
       ELSE IF ~neg /\ v <= MaxInt64 THEN [ok |-> TRUE, val |-> v]
       ELSE [ok |-> FALSE, val |-> 0]

\* Mutant of shouldRetry: every error status is retried, whatever the
\* configured set.
shouldRetry_AnyErrorStatus(r, e) ==
    IF e # NilErr THEN TRUE ELSE r.StatusCode >= 400

\* Mutant of shouldRetry: only the status decides, an error does not.
shouldRetry_StatusOnly(r, e) == r.StatusCode \in h.RetryOnStatus

\* h.shouldRetry(resp, err)
shouldRetry(r, e) ==
    IF e # NilErr THEN TRUE ELSE r.StatusCode \in h.RetryOnStatus

\* The values time.Duration(rand.Float64() * float64(currentWait) * 0.1)
\* can take: rand.Float64() is in [0, 1) and the conversion truncates
\* toward zero.
\* Mutant of JitterSet: the jitter is up to a fifth of the base wait.
JitterSet_UpToAFifth(c) ==
    IF c >= 0 THEN {j \in 0 .. c : 5 * j < c} \cup {0}
    ELSE {-k : k \in {j \in 0 .. -c : 5 * j < -c}}

JitterSet(c) ==
    IF c >= 0 THEN {j \in 0 .. c : 10 * j < c} \cup {0}
    ELSE {-k : k \in {j \in 0 .. -c : 10 * j < -c}}

\* rateLimitWait (lines 133-140)
RateLimitWait(r) ==
    LET a == Atoi(r.RetryAfter)
    IN IF r.RetryAfter # <<>> /\ a.ok
       THEN WrapInt64(a.val * Second)
       ELSE WrapInt64(DefaultRateLimitSeconds * Second)

\* Mutant of RateLimitChosen: Retry-After is honoured on any response.
RateLimitChosen_AnyStatus(c, j, r) ==
    /\ ~r.isNil
    /\ RateLimitWait(r) > WrapInt64(c + j)

\* The wait is the rate-limit wait (lines 132, 143)
RateLimitChosen(c, j, r) ==
    /\ ~r.isNil
    /\ r.StatusCode = StatusTooManyRequests
    /\ RateLimitWait(r) > WrapInt64(c + j)

\* waitTime (lines 129-146) for base wait c, jitter j and response r
WaitTime(c, j, r) ==
    IF RateLimitChosen(c, j, r) THEN RateLimitWait(r) ELSE WrapInt64(c + j)

\* Mutant of NextWait: the growth starts from the wait just taken.
NextWait_FromWaited(c) ==
    IF 3 * waitTime <= 2 * h.MaxWait
    THEN (IF waitTime >= 0 THEN (3 * waitTime) \div 2
          ELSE -((3 * (-waitTime)) \div 2))
    ELSE h.MaxWait

\* Mutant of NextWait: the growth is not capped at MaxWait.
NextWait_NoCap(c) ==
    IF c >= 0 THEN (3 * c) \div 2 ELSE -((3 * (-c)) \div 2)

\* time.Duration(math.Min(float64(currentWait)*1.5, float64(h.MaxWait)))
NextWait(c) ==
    IF 3 * c <= 2 * h.MaxWait
    THEN (IF c >= 0 THEN (3 * c) \div 2 ELSE -((3 * (-c)) \div 2))
    ELSE h.MaxWait

\* Mutant of NextAttempt: the counter skips an attempt.
NextAttempt_SkipsOne(a) == a + 2

\* Mutant of NextAttempt: the counter starts over.
NextAttempt_StartsOver(a) == 0

\* Mutant of NextAttempt: the counter is not advanced.
NextAttempt_Stuck(a) == a

\* The loop of line 99: its condition, its post statement, and the test of
\* line 122 for the last allowed attempt.
LoopCondition(a) == a <= h.MaxRetries
NextAttempt(a) == a + 1
LastAttempt(a) == a >= h.MaxRetries

\* Mutant of NewRequestFails: building the request never fails.
NewRequestFails_Never(o) == FALSE

\* http.NewRequestWithContext fails on a URL that does not parse.
NewRequestFails(o) == o.URL = "://invalid-url"

\* Mutant of ValidationError: the URL is not validated.
ValidationError_URLNotChecked(method, url) ==
    IF method = "" THEN "method cannot be empty" ELSE ""

\* Lines 76-81: the message of the validation error, "" when the method
\* and the URL pass.
ValidationError(method, url) ==
    IF method = "" THEN "method cannot be empty"
    ELSE IF url = "" THEN "URL cannot be empty"
    ELSE ""

\* Mutant of bodyReader: the attempt's request carries no body.
bodyReader_NoBody(b) == <<>>

\* Lines 101-106: the bytes the request of an attempt carries, read from a
\* new reader over the captured bytes; no body when nothing was captured.
bodyReader(b) == IF b.isNil THEN <<>> ELSE b.data

\* Mutant of RetryHookArgs: the attempt index is one-based.
RetryHookArgs_OneBased(a, r, e) ==
    [called |-> TRUE, attempt |-> a + 1, resp |-> r, err |-> e]

\* h.RetryHook(attempt, resp, err) (line 126)
RetryHookArgs(a, r, e) ==
    [called |-> TRUE, attempt |-> a, resp |-> r, err |-> e]

\* Mutant of InvokedHook: the function set at construction is called.
InvokedHook_SetAtConstruction(slot) == "default"

\* h.RetryHook(...), h.SuccessHook(...) (lines 118, 126): the function
\* called is the one the field holds when the call is made.
InvokedHook(slot) == h[slot]

\* The fields the default retry hook logs (client.go, setDefaultHooks);
\* the closure reads h when it runs.
DefaultRetryHook(a, r, e) ==
    [logged |-> TRUE,
     attempt |-> a + 1,
     max |-> h.MaxRetries,
     wait |-> h.InitialWait,
     hasError |-> e # NilErr,
     error |-> e,
     hasStatus |-> ~r.isNil,
     status |-> IF r.isNil THEN 0 ELSE r.StatusCode]

\* Mutant of SuccessHookArgs: the hook does not get the call's options.
SuccessHookArgs_NoOptions(r, o) ==
    [called |-> TRUE, resp |-> r, opts |-> NoOpts]

\* h.SuccessHook(resp, opts) (line 118)
SuccessHookArgs(r, o) ==
    [called |-> TRUE, resp |-> r, opts |-> o]

\* ---------------------------------------------------------- return values
\* return nil, fmt.Errorf(...)
ReturnError(type) ==
    [NoResult EXCEPT !.kind = "error", !.err = Err(type, 0)]

\* Mutant of ReturnSuccess: a 4xx or 5xx response is turned into an error.
ReturnSuccess_ErrorOn4xx(r) ==
    IF r.StatusCode >= 400
    THEN [NoResult EXCEPT !.kind = "error", !.err = Err("http status", 0)]
    ELSE [NoResult EXCEPT !.kind = "success", !.resp = r]

\* return resp, nil (line 119)
ReturnSuccess(r) ==
    [NoResult EXCEPT !.kind = "success", !.resp = r]

\* Mutant of RetryExhaustedError: Attempts counts the retries, not the
\* attempts.
RetryExhaustedError_AttemptsIsMaxRetries(o, r, e) ==
    [kind |-> "error",
     resp |-> r,
     err |-> Err("retry_exhausted", 0),
     URL |-> o.URL,
     Method |-> o.Method,
     Attempts |-> h.MaxRetries,
     LastStatus |-> IF ~r.isNil THEN r.StatusCode ELSE 0,
     LastError |-> IF e # NilErr THEN e
                   ELSE Err("unknown error after attempts", h.MaxRetries + 1)]

\* return resp, &RetryExhaustedError{...} (lines 171-187); e is the err in
\* scope there, the one declared at line 72.
RetryExhaustedError(o, r, e) ==
    [kind |-> "error",
     resp |-> r,
     err |-> Err("retry_exhausted", 0),
     URL |-> o.URL,
     Method |-> o.Method,
     Attempts |-> h.MaxRetries + 1,
     LastStatus |-> IF ~r.isNil THEN r.StatusCode ELSE 0,
     LastError |-> IF e # NilErr THEN e
                   ELSE Err("unknown error after attempts", h.MaxRetries + 1)]

Hooks == Len(retryHookLog) + successHookCalls

\* ------------------------------------------------------------ the actions
\* History kept apart from the program's own variables.
HistoryUnchanged ==
    UNCHANGED <<requests, retryHookLog, successHookCalls, lastOutcome,
                retryable, rateLimited, waited, cancelAt, sent,
                retryHookCall, successHookCall, lastStatus, hooksInvoked,
                logFields>>

\* doRequest does not construct a client, and calls h.shouldRetry only
\* from within its loop; the calls of SpecConcurrent are kept apart.
ClientUnchanged ==
    UNCHANGED <<config, decision, calls, instances, invocation, runs>>

\* doRequest, lines 71-96: validation, the body read once, the context
\* defaulted, the base wait initialised.
Enter(method, url, body) ==
    /\ pc = "idle"
    /\ opts' = [Method |-> method, URL |-> url, Body |-> body,
                Context |-> callerCtx]
    /\ IF ValidationError(method, url) # ""
       THEN /\ result' = ReturnError(ValidationError(method, url))
            /\ pc' = "done"
            /\ UNCHANGED <<bodyBytes, err, currentWait, bodyReads>>
       ELSE IF ~body.isNil /\ body.fails
       THEN /\ bodyReads' = bodyReads + 1
            /\ result' = ReturnError("failed to read request body")
            /\ err' = Err("read", 0)
            /\ pc' = "done"
            /\ UNCHANGED <<bodyBytes, currentWait>>
       ELSE /\ bodyReads' = IF body.isNil THEN bodyReads ELSE bodyReads + 1
            /\ bodyBytes' = IF body.isNil THEN NoBytes
                            ELSE [isNil |-> FALSE, data |-> body.data]
            /\ err' = NilErr
            /\ currentWait' = h.InitialWait
            /\ pc' = "loop"
            /\ UNCHANGED result
    /\ attempt' = 0
    /\ UNCHANGED <<h, callerCtx, ctxDone, loopErr, resp, waitTime>>
    /\ HistoryUnchanged
    /\ ClientUnchanged

\* Line 99 with the loop condition false, then lines 158-187.
LoopExit ==
    /\ pc = "loop"
    /\ ~LoopCondition(attempt)
    /\ result' = RetryExhaustedError(opts, resp, err)
    /\ pc' = "done"
    /\ UNCHANGED <<h, callerCtx, ctxDone, opts, bodyBytes, err, loopErr, resp,
                   attempt, currentWait, waitTime, bodyReads>>
    /\ HistoryUnchanged
    /\ ClientUnchanged
    /\ UNCHANGED entry

\* Lines 99-116: the request of this attempt is built and handed to
\* h.Client.Do, or building it fails and the call returns.
\* textproto.CanonicalMIMEHeaderKey, which http.Header.Set applies to the
\* name it is given, on the header names in use here.
CanonicalMIMEHeaderKey(k) == IF k = "accept" THEN "Accept" ELSE k

\* opts.Headers: the header map of the RequestOptions the entry point
\* built; a direct call of doRequest as in Spec passes none.
OptsHeaders == IF entry.point = "none" THEN {} ELSE entry.options.Headers

\* req.Header after the loop of lines 112-114 over the map m: each name is
\* canonicalised and Set replaces what an earlier iteration stored under
\* the same canonical name; the iteration order of a Go map is
\* unspecified, so any entry of that name may be the one left.
RequestHeader(m) ==
    LET names == {CanonicalMIMEHeaderKey(p[1]) : p \in m}
    IN {f \in [names -> {p[2] : p \in m}] :
           \A n \in names :
              \E p \in m : CanonicalMIMEHeaderKey(p[1]) = n /\ f[n] = p[2]}

\* Mutant of BoundContext: a nil context is handed on as it is.
BoundContext_NilKept(o) == o.Context

\* The context the requests are bound to (lines 90-92, 106).
BoundContext(o) == IF o.Context = "nil" THEN "background" ELSE o.Context

StartAttempt ==
    /\ pc = "loop"
    /\ LoopCondition(attempt)
    /\ IF NewRequestFails(opts)
       THEN /\ loopErr' = Err("parse", 0)
            /\ result' = ReturnError("failed to create request")
            /\ pc' = "done"
            /\ UNCHANGED <<requests, sent>>
       ELSE /\ loopErr' = NilErr
            /\ requests' = requests + 1
            /\ \E header \in RequestHeader(OptsHeaders) :
                  sent' = Append(sent, [Method |-> opts.Method,
                                        URL |-> opts.URL,
                                        Body |-> bodyReader(bodyBytes),
                                        Header |-> header,
                                        Context |-> BoundContext(opts)])
            /\ pc' = "inflight"
            /\ UNCHANGED result
    /\ waited' = NoWait
    /\ UNCHANGED <<h, callerCtx, ctxDone, opts, bodyBytes, err, resp, attempt,
                   currentWait, waitTime>>
    /\ UNCHANGED <<retryHookLog, successHookCalls, lastOutcome, retryable,
                   rateLimited, cancelAt, bodyReads, retryHookCall,
                   successHookCall, lastStatus, hooksInvoked, logFields>>
    /\ ClientUnchanged
    /\ UNCHANGED entry

\* Mutant of DoOutcomes: the request is not bound to the call's context.
DoOutcomes_IgnoreContext == Outcomes

\* The outcomes h.Client.Do can have: the context's error once the context
\* is done, anything the server and the transport produce otherwise.
DoOutcomes == IF ctxDone THEN {ContextOutcome} ELSE Outcomes

\* For the history: o is a retryable outcome, a transport error or a status
\* in the configured retryable set.
RetryableOutcome(o) ==
    o.err # NilErr \/ o.resp.StatusCode \in h.RetryOnStatus

\* Lines 116-148: h.Client.Do returns o; the call returns the response, or
\* breaks out of the loop and returns the exhaustion error, or calls the
\* retry hook and computes the wait with jitter j.
\* The hook field lines 117-126 call once h.Client.Do has returned o:
\* SuccessHook on success, RetryHook before a retry, none on the last
\* attempt.
HookCalledAfter(o) ==
    IF o.err = NilErr /\ ~shouldRetry(o.resp, o.err) THEN "SuccessHook"
    ELSE IF LastAttempt(attempt) THEN "none"
    ELSE "RetryHook"

\* Calling a nil func value panics; lines 118 and 126 call the field
\* without a check.
HookPanics(o) ==
    /\ HookCalledAfter(o) # "none"
    /\ InvokedHook(HookCalledAfter(o)) = "nil"

\* The call did not return: the goroutine panicked.
Panic == [NoResult EXCEPT !.kind = "panic"]

CompleteAttempt(o, j) ==
    /\ pc = "inflight"
    /\ resp' = o.resp
    /\ loopErr' = o.err
    /\ lastOutcome' = o
    /\ retryable' = IF RetryableOutcome(o) THEN retryable + 1 ELSE retryable
    /\ lastStatus' = IF o.resp.isNil THEN lastStatus ELSE o.resp.StatusCode
    /\ IF HookPanics(o)
       THEN /\ hooksInvoked' = hooksInvoked
                   \cup {<<HookCalledAfter(o), "nil">>}
            /\ result' = Panic
            /\ pc' = "done"
            /\ UNCHANGED <<retryHookLog, retryHookCall, waitTime,
                           rateLimited, logFields, successHookCalls,
                           successHookCall>>
       ELSE IF o.err = NilErr /\ ~shouldRetry(o.resp, o.err)
       THEN /\ successHookCalls' = successHookCalls + 1
            /\ successHookCall' = SuccessHookArgs(o.resp, opts)
            /\ hooksInvoked' = hooksInvoked
                   \cup {<<"SuccessHook", InvokedHook("SuccessHook")>>}
            /\ result' = ReturnSuccess(o.resp)
            /\ pc' = "done"
            /\ UNCHANGED <<retryHookLog, retryHookCall, waitTime,
                           rateLimited, logFields>>
       ELSE /\ IF LastAttempt(attempt)
               THEN /\ result' = RetryExhaustedError(opts, o.resp, err)
                    /\ pc' = "done"
                    /\ UNCHANGED <<retryHookLog, retryHookCall, waitTime,
                                   rateLimited, hooksInvoked, logFields>>
               ELSE /\ retryHookCall' =
                           RetryHookArgs(attempt, o.resp, o.err)
                    /\ hooksInvoked' = hooksInvoked
                           \cup {<<"RetryHook", InvokedHook("RetryHook")>>}
                    /\ logFields' =
                           IF InvokedHook("RetryHook") = "default"
                           THEN DefaultRetryHook(attempt, o.resp, o.err)
                           ELSE NoLogFields
                    /\ retryHookLog' =
                           Append(retryHookLog, retryHookCall'.attempt)
                    /\ waitTime' = WaitTime(currentWait, j, o.resp)
                    /\ rateLimited' = RateLimitChosen(currentWait, j, o.resp)
                    /\ pc' = "select"
                    /\ UNCHANGED result
            /\ UNCHANGED <<successHookCalls, successHookCall>>
    /\ UNCHANGED <<h, callerCtx, ctxDone, opts, bodyBytes, err, attempt,
                   currentWait, requests, waited, cancelAt, bodyReads, sent>>
    /\ ClientUnchanged
    /\ UNCHANGED entry

\* Lines 150-152: the select takes the context's case.
ContextCase ==
    /\ result' = ReturnError("context cancelled during retry")
    /\ pc' = "done"
    /\ UNCHANGED <<h, callerCtx, opts, bodyBytes, err, loopErr, resp, attempt,
                   currentWait, waitTime>>
    /\ UNCHANGED <<requests, retryHookLog, successHookCalls, lastOutcome,
                   retryable, rateLimited, waited, bodyReads, sent,
                   retryHookCall, successHookCall, lastStatus, hooksInvoked,
                   logFields>>
    /\ ClientUnchanged
    /\ UNCHANGED entry

\* Lines 153-156: the select takes the timer's case; the base wait grows
\* and the loop goes to its next iteration, where the variables declared
\* in the loop body (waitTime, the inner err) are new ones.
\* Mutant of TimerCase: the grown wait is stored in the client.
TimerCase_BackoffInClient ==
    /\ currentWait' = NextWait(currentWait)
    /\ h' = [h EXCEPT !.InitialWait = NextWait(currentWait)]
    /\ attempt' = NextAttempt(attempt)
    /\ waited' = [valid |-> TRUE, dur |-> waitTime, rateLimited |-> rateLimited,
                  base |-> currentWait, status |-> resp.StatusCode,
                  retryAfter |-> resp.RetryAfter]
    /\ waitTime' = 0
    /\ loopErr' = NilErr
    /\ rateLimited' = FALSE
    /\ retryHookCall' = NoRetryHookCall
    /\ logFields' = NoLogFields
    /\ pc' = "loop"
    /\ UNCHANGED <<callerCtx, ctxDone, opts, bodyBytes, err, resp, result>>
    /\ UNCHANGED <<requests, retryHookLog, successHookCalls, lastOutcome,
                   retryable, cancelAt, bodyReads, sent, successHookCall,
                   lastStatus, hooksInvoked>>
    /\ ClientUnchanged
    /\ UNCHANGED entry

TimerCase ==
    /\ currentWait' = NextWait(currentWait)
    /\ attempt' = NextAttempt(attempt)
    /\ waited' = [valid |-> TRUE, dur |-> waitTime, rateLimited |-> rateLimited,
                  base |-> currentWait, status |-> resp.StatusCode,
                  retryAfter |-> resp.RetryAfter]
    /\ waitTime' = 0
    /\ loopErr' = NilErr
    /\ rateLimited' = FALSE
    /\ retryHookCall' = NoRetryHookCall
    /\ logFields' = NoLogFields
    /\ pc' = "loop"
    /\ UNCHANGED <<h, callerCtx, ctxDone, opts, bodyBytes, err, resp, result>>
    /\ UNCHANGED <<requests, retryHookLog, successHookCalls, lastOutcome,
                   retryable, cancelAt, bodyReads, sent, successHookCall,
                   lastStatus, hooksInvoked>>
    /\ ClientUnchanged
    /\ UNCHANGED entry

\* The timer of time.After(d) has fired by the time the select looks at it
\* when d is zero or negative.
TimerReady == waitTime <= 0

\* Line 149, reached with a case ready: a ready case is taken, either one
\* when both are ready.
SelectContextDone ==
    /\ pc = "select"
    /\ ctxDone
    /\ ContextCase
    /\ UNCHANGED <<ctxDone, cancelAt>>

SelectTimer ==
    /\ pc = "select"
    /\ TimerReady
    /\ TimerCase

\* Line 149, reached with no case ready: the call blocks.
SelectBlock ==
    /\ pc = "select"
    /\ ~ctxDone
    /\ ~TimerReady
    /\ pc' = "blocked"
    /\ UNCHANGED <<h, callerCtx, ctxDone, opts, bodyBytes, err, loopErr, resp,
                   attempt, currentWait, waitTime, result, bodyReads>>
    /\ HistoryUnchanged
    /\ ClientUnchanged
    /\ UNCHANGED entry

CancelRecord ==
    [at |-> pc, requests |-> requests, hooks |-> Hooks]

\* The blocked select is woken by the first case that becomes ready: the
\* context becoming done ...
WakeContext ==
    /\ pc = "blocked"
    /\ callerCtx = "cancellable"
    /\ ~ctxDone
    /\ ctxDone' = TRUE
    /\ cancelAt' = CancelRecord
    /\ ContextCase

\* ... or the wait elapsing.
WakeTimer ==
    /\ pc = "blocked"
    /\ TimerCase

\* The caller's context becomes done (cancel or deadline) while the call
\* is anywhere else, or before the call is made.
CancelContext ==
    /\ pc \in {"idle", "loop", "inflight", "select"}
    /\ callerCtx = "cancellable"
    /\ ~ctxDone
    /\ ctxDone' = TRUE
    /\ cancelAt' = CancelRecord
    /\ UNCHANGED <<h, callerCtx, pc, opts, bodyBytes, err, loopErr, resp,
                   attempt, currentWait, waitTime, result>>
    /\ UNCHANGED <<requests, retryHookLog, successHookCalls, lastOutcome,
                   retryable, rateLimited, waited, bodyReads, sent,
                   retryHookCall, successHookCall, lastStatus, hooksInvoked,
                   logFields>>
    /\ ClientUnchanged
    /\ UNCHANGED entry

Next ==
    \/ \E method \in Methods, url \in URLs, body \in Bodies :
          Enter(method, url, body) /\ UNCHANGED entry
    \/ LoopExit
    \/ StartAttempt
    \/ \E o \in DoOutcomes, j \in JitterSet(currentWait) :
          CompleteAttempt(o, j)
    \/ SelectContextDone
    \/ SelectTimer
    \/ SelectBlock
    \/ WakeContext
    \/ WakeTimer
    \/ CancelContext

Spec == Init /\ [][Next]_vars

\* The steps doRequest takes by itself once it was called: each HTTP
\* attempt returns, the select is evaluated, and a wait the call is blocked
\* in elapses unless the context's case wakes it first.
Steps ==
    \/ LoopExit
    \/ StartAttempt
    \/ \E o \in DoOutcomes, j \in JitterSet(currentWait) :
          CompleteAttempt(o, j)
    \/ SelectContextDone
    \/ SelectTimer
    \/ SelectBlock
    \/ WakeTimer

\* The request executor with those steps taken eventually.
FairSpec == Spec /\ WF_vars(Steps)

\* --------------------------------------------- the client's construction
\* A second specification: NewHTTPUtil is called with an override, then
\* h.shouldRetry is called on the client it returned.
InitClient ==
    /\ h = NoClient
    /\ callerCtx = "nil"
    /\ ctxDone = FALSE
    /\ pc = "new"
    /\ opts = NoOpts
    /\ bodyBytes = NoBytes
    /\ err = NilErr
    /\ loopErr = NilErr
    /\ resp = NilResp
    /\ attempt = 0
    /\ currentWait = 0
    /\ waitTime = 0
    /\ result = NoResult
    /\ requests = 0
    /\ retryHookLog = <<>>
    /\ successHookCalls = 0
    /\ lastOutcome = NoOutcome
    /\ retryable = 0
    /\ rateLimited = FALSE
    /\ waited = NoWait
    /\ cancelAt = NoCancel
    /\ bodyReads = 0
    /\ sent = <<>>
    /\ retryHookCall = NoRetryHookCall
    /\ successHookCall = NoSuccessHookCall
    /\ config = NilConfig
    /\ decision = NoDecision
    /\ lastStatus = 0
    /\ hooksInvoked = {}
    /\ logFields = NoLogFields
    /\ entry = NoEntry
    /\ calls = NoCalls
    /\ instances = NoInstances
    /\ invocation = NoInvocation
    /\ runs = NoRuns

\* No request is made in this specification.
RequestUnchanged ==
    /\ UNCHANGED <<callerCtx, ctxDone, opts, bodyBytes, err, loopErr, resp,
                   attempt, currentWait, waitTime, result, bodyReads, entry,
                   calls, instances, invocation, runs>>
    /\ HistoryUnchanged

\* NewHTTPUtil(logger, c) returns the client.
Construct(c) ==
    /\ pc = "new"
    /\ config' = c
    /\ h' = NewHTTPUtil(c)
    /\ pc' = "constructed"
    /\ UNCHANGED decision
    /\ RequestUnchanged

\* h.shouldRetry(r, e) is called and returns.
CallShouldRetry(r, e) ==
    /\ pc = "constructed"
    /\ decision' = [called |-> TRUE, resp |-> r, err |-> e,
                    retry |-> shouldRetry(r, e)]
    /\ UNCHANGED <<h, pc, config>>
    /\ RequestUnchanged

NextClient ==
    \/ \E c \in Configs : Construct(c)
    \/ \E call \in ShouldRetryInputs : CallShouldRetry(call[1], call[2])

SpecClient == InitClient /\ [][NextClient]_vars

\* ------------------------------------------------------ the hook setters
\* A third specification: the hooks of a client are replaced any number of
\* times, then a request is made on it.
HookFunctions == {"f", "g"}

InitHooks ==
    /\ Init
    /\ h.MaxRetries \in {-1, 1}
    /\ h.InitialWait \in {0, 11}
    /\ h.MaxWait = 12
    /\ h.RetryOnStatus = DefaultRetryOnStatus

\* The setters touch one field of the client and nothing else.
SetterUnchanged ==
    /\ UNCHANGED <<callerCtx, ctxDone, pc, opts, bodyBytes, err, loopErr,
                   resp, attempt, currentWait, waitTime, result, bodyReads,
                   entry>>
    /\ HistoryUnchanged
    /\ ClientUnchanged

\* h.SetRetryHook(hook), called and returned before the request starts.
SetRetryHook(hook) ==
    /\ pc = "idle"
    /\ h' = [h EXCEPT !.RetryHook = hook]
    /\ SetterUnchanged

\* h.SetSuccessHook(hook), called and returned before the request starts.
SetSuccessHook(hook) ==
    /\ pc = "idle"
    /\ h' = [h EXCEPT !.SuccessHook = hook]
    /\ SetterUnchanged

NextHooks ==
    \/ \E hook \in HookFunctions : SetRetryHook(hook)
    \/ \E hook \in HookFunctions : SetSuccessHook(hook)
    \/ Next

SpecHooks == InitHooks /\ [][NextHooks]_vars

\* ------------------------------------------------------ concurrent calls
\* A fourth specification: two calls of doRequest run concurrently on one
\* client, each on its own goroutine with its own context.  Everything
\* doRequest writes is a local variable of the call (lines 72-74, 96, 99);
\* the calls share the client h, which doRequest only reads.  Each call is
\* kept as a record of those locals, at the grain of one step per
\* attempt and one per wait.
CallIds == {1, 2}

IdleCall ==
    [pc |-> "idle", body |-> NilBody, bodyBytes |-> NoBytes,
     ctxDone |-> FALSE, attempt |-> 0, currentWait |-> 0, requests |-> 0,
     last |-> NoOutcome, kind |-> "none", resp |-> NilResp]

\* What h.Client.Do returns to a call of this specification.
CallOutcomes ==
    {[resp |-> Response(200, <<>>), err |-> NilErr],
     [resp |-> Response(500, <<>>), err |-> NilErr],
     [resp |-> NilResp, err |-> Err("transport", 0)]}

InitConcurrent ==
    /\ h \in [MaxRetries : {-1, MaxRetriesBound}, InitialWait : {11},
              MaxWait : {30}, RetryOnStatus : {DefaultRetryOnStatus},
              RetryHook : {"default"}, SuccessHook : {"default"}]
    /\ calls = [c \in CallIds |-> IdleCall]
    /\ instances = NoInstances
    /\ invocation = NoInvocation
    /\ runs = NoRuns
    /\ pc = "concurrent"
    /\ callerCtx = "nil"
    /\ ctxDone = FALSE
    /\ opts = NoOpts
    /\ bodyBytes = NoBytes
    /\ err = NilErr
    /\ loopErr = NilErr
    /\ resp = NilResp
    /\ attempt = 0
    /\ currentWait = 0
    /\ waitTime = 0
    /\ result = NoResult
    /\ requests = 0
    /\ retryHookLog = <<>>
    /\ successHookCalls = 0
    /\ lastOutcome = NoOutcome
    /\ retryable = 0
    /\ rateLimited = FALSE
    /\ waited = NoWait
    /\ cancelAt = NoCancel
    /\ bodyReads = 0
    /\ sent = <<>>
    /\ retryHookCall = NoRetryHookCall
    /\ successHookCall = NoSuccessHookCall
    /\ config = NilConfig
    /\ decision = NoDecision
    /\ lastStatus = 0
    /\ hooksInvoked = {}
    /\ logFields = NoLogFields
    /\ entry = NoEntry

\* A step of a call writes its own locals and nothing else: not the
\* client, and none of the single call's variables of Spec.
SharedUnchanged ==
    /\ UNCHANGED <<h, callerCtx, ctxDone, pc, opts, bodyBytes, err, loopErr,
                   resp, attempt, currentWait, waitTime, result, bodyReads,
                   entry, config, decision, instances, invocation, runs>>
    /\ HistoryUnchanged

\* Mutant of BaseOf: the base wait is kept in one place for all calls.
BaseOf_Shared(c) == calls[1].currentWait

\* currentWait, a local variable of call c (line 96).
BaseOf(c) == calls[c].currentWait

\* Lines 71-96 for call c, with a valid method and URL.
CallEnter(c, body) ==
    /\ calls[c].pc = "idle"
    /\ calls' = [calls EXCEPT ![c] =
           [@ EXCEPT !.pc = "loop", !.body = body,
                     !.bodyBytes = IF body.isNil THEN NoBytes
                                   ELSE [isNil |-> FALSE, data |-> body.data],
                     !.currentWait = h.InitialWait]]
    /\ SharedUnchanged

\* Lines 99-116 for call c: the next request is sent, or the loop is over
\* and lines 158-187 return the exhaustion error.
CallLoop(c) ==
    /\ calls[c].pc = "loop"
    /\ calls' = [calls EXCEPT ![c] =
           IF LoopCondition(@.attempt)
           THEN [@ EXCEPT !.pc = "inflight", !.requests = @ + 1]
           ELSE [@ EXCEPT !.pc = "done", !.kind = "exhausted"]]
    /\ SharedUnchanged

\* Lines 116-148 for call c: h.Client.Do returns o.
CallComplete(c, o) ==
    /\ calls[c].pc = "inflight"
    /\ calls' = [calls EXCEPT ![c] =
           IF o.err = NilErr /\ ~shouldRetry(o.resp, o.err)
           THEN [@ EXCEPT !.pc = "done", !.last = o, !.kind = "success",
                          !.resp = o.resp]
           ELSE IF LastAttempt(@.attempt)
           THEN [@ EXCEPT !.pc = "done", !.last = o, !.kind = "exhausted",
                          !.resp = o.resp]
           ELSE [@ EXCEPT !.pc = "waiting", !.last = o]]
    /\ SharedUnchanged

\* Lines 153-156 for call c: its wait elapses.
CallTimer(c) ==
    /\ calls[c].pc = "waiting"
    /\ calls' = [calls EXCEPT ![c] =
           [@ EXCEPT !.pc = "loop",
                     !.currentWait = NextWait(BaseOf(c)),
                     !.attempt = NextAttempt(@)]]
    /\ SharedUnchanged

\* Lines 150-152 for call c: its context is done while it waits.
CallContextCase(c) ==
    /\ calls[c].pc = "waiting"
    /\ calls[c].ctxDone
    /\ calls' = [calls EXCEPT ![c] =
           [@ EXCEPT !.pc = "done", !.kind = "cancelled"]]
    /\ SharedUnchanged

\* The context of call c becomes done.
CallCancel(c) ==
    /\ calls[c].pc # "done"
    /\ ~calls[c].ctxDone
    /\ calls' = [calls EXCEPT ![c] = [@ EXCEPT !.ctxDone = TRUE]]
    /\ SharedUnchanged

\* The outcomes h.Client.Do can have for call c.
CallDoOutcomes(c) ==
    IF calls[c].ctxDone THEN {ContextOutcome} ELSE CallOutcomes

NextConcurrent ==
    \E c \in CallIds :
        \/ \E body \in {b \in Bodies : ~b.fails} : CallEnter(c, body)
        \/ CallLoop(c)
        \/ \E o \in CallDoOutcomes(c) : CallComplete(c, o)
        \/ CallTimer(c)
        \/ CallContextCase(c)
        \/ CallCancel(c)

SpecConcurrent == InitConcurrent /\ [][NextConcurrent]_vars

\* ---------------------------------------------------------- entry points
\* A fifth specification: the call enters through one of the public entry
\* points.  Each builds a RequestOptions value and hands it to doRequest.
\* A header map is a set of <<name, value>> pairs with distinct names.
\* The third has two names that are one HTTP header name.
HeaderMaps ==
    {{}, {<<"Accept", "application/json">>},
     {<<"accept", "text/plain">>, <<"Accept", "application/json">>}}

\* The RequestOptions literal of Get (lines 30-35): no Body field.
GetOptions(ctx, url, body, headers) ==
    [Method |-> "GET", URL |-> url, Body |-> NilBody, Headers |-> headers,
     Context |-> ctx]

\* The RequestOptions literal of Post (lines 40-46).
PostOptions(ctx, url, body, headers) ==
    [Method |-> "POST", URL |-> url, Body |-> body, Headers |-> headers,
     Context |-> ctx]

\* Mutant of PutOptions: the literal copied from Post with its method.
PutOptions_AsPost(ctx, url, body, headers) ==
    [Method |-> "POST", URL |-> url, Body |-> body, Headers |-> headers,
     Context |-> ctx]

\* The RequestOptions literal of Put (lines 51-57).
PutOptions(ctx, url, body, headers) ==
    [Method |-> "PUT", URL |-> url, Body |-> body, Headers |-> headers,
     Context |-> ctx]

\* Patch is declared by the HTTPClient interface (client.go:66) and has no
\* body in the sources at hand; it is taken from the specification: the
\* entry point fixing the method to PATCH, with the parameters of Post.
PatchOptions(ctx, url, body, headers) ==
    [Method |-> "PATCH", URL |-> url, Body |-> body, Headers |-> headers,
     Context |-> ctx]

\* The RequestOptions literal of Delete (lines 62-67): no Body field.
DeleteOptions(ctx, url, body, headers) ==
    [Method |-> "DELETE", URL |-> url, Body |-> NilBody,
     Headers |-> headers, Context |-> ctx]

\* The entry points taking a body parameter.
BodyEntryPoints == {"Post", "Put", "Patch"}
EntryPoints == {"Get", "Delete"} \cup BodyEntryPoints

\* `return h.doRequest(o)` of entry point `point`, called with the given
\* arguments (body is NilBody for the entry points without one).
CallEntry(point, url, body, headers, o) ==
    /\ Enter(o.Method, o.URL, o.Body)
    /\ entry' = [point |-> point, url |-> url, body |-> body,
                 headers |-> headers, ctx |-> callerCtx, options |-> o]

Get(url, headers) ==
    CallEntry("Get", url, NilBody, headers,
              GetOptions(callerCtx, url, NilBody, headers))

Post(url, body, headers) ==
    CallEntry("Post", url, body, headers,
              PostOptions(callerCtx, url, body, headers))

Put(url, body, headers) ==
    CallEntry("Put", url, body, headers,
              PutOptions(callerCtx, url, body, headers))

Patch(url, body, headers) ==
    CallEntry("Patch", url, body, headers,
              PatchOptions(callerCtx, url, body, headers))

Delete(url, headers) ==
    CallEntry("Delete", url, NilBody, headers,
              DeleteOptions(callerCtx, url, NilBody, headers))

InitEntry ==
    /\ Init
    /\ h.MaxRetries \in {-1, 1}
    /\ h.InitialWait \in {0, 11}
    /\ h.MaxWait = 12
    /\ h.RetryOnStatus = DefaultRetryOnStatus

NextEntry ==
    \/ \E url \in URLs, headers \in HeaderMaps : Get(url, headers)
    \/ \E url \in URLs, body \in Bodies, headers \in HeaderMaps :
          Post(url, body, headers)
    \/ \E url \in URLs, body \in Bodies, headers \in HeaderMaps :
          Put(url, body, headers)
    \/ \E url \in URLs, body \in Bodies, headers \in HeaderMaps :
          Patch(url, body, headers)
    \/ \E url \in URLs, headers \in HeaderMaps : Delete(url, headers)
    \/ Steps
    \/ WakeContext
    \/ CancelContext

SpecEntry == InitEntry /\ [][NextEntry]_vars

\* ------------------------------------------------------------ long waits
\* A sixth specification: the call of Spec on a client whose InitialWait
\* goes up to the largest time.Duration, where currentWait + jitter (line
\* 130) no longer fits the int64 of a Duration.
LongWaits == {0, 11, 116, 117, MaxInt64}

InitLongWait ==
    /\ h \in [MaxRetries : {-1, MaxRetriesBound}, InitialWait : LongWaits,
              MaxWait : {12, 60}, RetryOnStatus : {DefaultRetryOnStatus},
              RetryHook : {"default"}, SuccessHook : {"default"}]
    /\ callerCtx \in Contexts
    /\ ctxDone = FALSE
    /\ pc = "idle"
    /\ opts = NoOpts
    /\ bodyBytes = NoBytes
    /\ err = NilErr
    /\ loopErr = NilErr
    /\ resp = NilResp
    /\ attempt = 0
    /\ currentWait = 0
    /\ waitTime = 0
    /\ result = NoResult
    /\ requests = 0
    /\ retryHookLog = <<>>
    /\ successHookCalls = 0
    /\ lastOutcome = NoOutcome
    /\ retryable = 0
    /\ rateLimited = FALSE
    /\ waited = NoWait
    /\ cancelAt = NoCancel
    /\ bodyReads = 0
    /\ sent = <<>>
    /\ retryHookCall = NoRetryHookCall
    /\ successHookCall = NoSuccessHookCall
    /\ config = NilConfig
    /\ decision = NoDecision
    /\ lastStatus = 0
    /\ hooksInvoked = {}
    /\ logFields = NoLogFields
    /\ entry = NoEntry
    /\ calls = NoCalls
    /\ instances = NoInstances
    /\ invocation = NoInvocation
    /\ runs = NoRuns

SpecLongWait == InitLongWait /\ [][Next]_vars

\* ------------------------------------------------------- client instances
\* A seventh specification: several clients are constructed, their hooks
\* are replaced, and requests on them reach the hook calls of lines 118
\* and 126.  A client is the record NewHTTPUtil returns with the logger it
\* was given; the hooks are fields of that record (client.go:89-90), and
\* the default hooks are closures over the client they were set on
\* (setDefaultHooks has the client as its receiver).
InstanceIds == {1, 2}
Loggers == {"logger1", "logger2"}
InstanceConfigs ==
    {NilConfig, [NilConfig EXCEPT !.isNil = FALSE, !.MaxRetries = 2]}

\* NewHTTPUtil(logger, c): a fresh client, its default hooks set.
NewInstance(i, logger, c) ==
    /\ i \notin DOMAIN instances
    /\ instances' = instances @@ (i :> [Logger |-> logger,
                                        MaxRetries |-> NewHTTPUtil(c).MaxRetries,
                                        RetryHook |-> NewHTTPUtil(c).RetryHook,
                                        SuccessHook |-> NewHTTPUtil(c).SuccessHook])
    /\ UNCHANGED invocation
    /\ UNCHANGED <<h, pc, config, decision, callerCtx, ctxDone, opts,
                   bodyBytes, err, loopErr, resp, attempt, currentWait,
                   waitTime, result, bodyReads, entry, calls, runs>>
    /\ HistoryUnchanged

\* SetRetryHook / SetSuccessHook called on client i.
InstanceSetHook(i, slot, hook) ==
    /\ i \in DOMAIN instances
    /\ instances' = [instances EXCEPT ![i][slot] = hook]
    /\ UNCHANGED invocation
    /\ UNCHANGED <<h, pc, config, decision, callerCtx, ctxDone, opts,
                   bodyBytes, err, loopErr, resp, attempt, currentWait,
                   waitTime, result, bodyReads, entry, calls, runs>>
    /\ HistoryUnchanged

\* Mutant of HookOf: the hooks are kept in one place for all clients.
HookOf_Shared(i, slot) ==
    instances[CHOOSE j \in DOMAIN instances :
                 \A k \in DOMAIN instances : j <= k][slot]

\* h.RetryHook / h.SuccessHook with h the client i.
HookOf(i, slot) == instances[i][slot]

\* A request on client i calls the hook of the given slot (line 118 or
\* 126); a default hook logs through h.Logger and, for the retry hook,
\* h.MaxRetries, of the client it is a closure over.
InstanceCallsHook(i, slot) ==
    /\ i \in DOMAIN instances
    /\ invocation' =
          [instance |-> i, slot |-> slot, hook |-> HookOf(i, slot),
           logger |-> IF HookOf(i, slot) = "default"
                      THEN instances[i].Logger ELSE "none",
           max |-> IF HookOf(i, slot) = "default" /\ slot = "RetryHook"
                   THEN instances[i].MaxRetries ELSE 0]
    /\ UNCHANGED instances
    /\ UNCHANGED <<h, pc, config, decision, callerCtx, ctxDone, opts,
                   bodyBytes, err, loopErr, resp, attempt, currentWait,
                   waitTime, result, bodyReads, entry, calls, runs>>
    /\ HistoryUnchanged

NextInstances ==
    \E i \in InstanceIds :
        \/ \E logger \in Loggers, c \in InstanceConfigs :
              NewInstance(i, logger, c)
        \/ \E hook \in HookFunctions \cup {"default"} :
              InstanceSetHook(i, "RetryHook", hook)
        \/ \E hook \in HookFunctions \cup {"default"} :
              InstanceSetHook(i, "SuccessHook", hook)
        \/ InstanceCallsHook(i, "RetryHook")
        \/ InstanceCallsHook(i, "SuccessHook")

SpecInstances == InitClient /\ [][NextInstances]_vars

\* --------------------------------------------------------------- nil hooks
\* An eighth specification: the setters are called with any argument, nil
\* included, before the call.
HookArguments == HookFunctions \cup {"nil"}

NextNilHook ==
    \/ \E hook \in HookArguments : SetRetryHook(hook)
    \/ \E hook \in HookArguments : SetSuccessHook(hook)
    \/ Next

SpecNilHook == InitHooks /\ [][NextNilHook]_vars

\* ---------------------------------------------------------------- two runs
\* A ninth specification: the same call (same client, same request, same
\* outcome of each attempt, context never done) is executed twice, side by
\* side; each execution draws its own jitter at line 129.  An execution is
\* kept as a record of the locals of doRequest and of what it has done.
RunIds == {1, 2}

RunOpts == [Method |-> "GET", URL |-> "http://example.com",
            Body |-> NilBody, Context |-> "nil"]

RunOutcomes ==
    {[resp |-> Response(200, <<>>), err |-> NilErr],
     [resp |-> Response(500, <<>>), err |-> NilErr],
     [resp |-> Response(StatusTooManyRequests, <<"7">>), err |-> NilErr],
     [resp |-> NilResp, err |-> Err("transport", 0)]}

\* Lines 71-96: the locals when the loop is entered.
EnteredRun ==
    [pc |-> "loop", attempt |-> 0, currentWait |-> h.InitialWait,
     waitTime |-> 0, requests |-> 0, resp |-> NilResp, hooks |-> <<>>,
     result |-> NoResult]

\* Mutant of GrownWait: the next base wait grows from the wait just taken.
GrownWait_FromWaited(c, w) == NextWait(w)

\* Line 154: the next base wait grows from currentWait c, the wait w that
\* was taken plays no part.
GrownWait(c, w) == NextWait(c)

\* One iteration of the loop (lines 99-156) of an execution in state s,
\* whose attempt is answered with o and whose jitter is j, its context
\* never done; once the loop is over, lines 158-187.
RunStep(s, o, j) ==
    IF ~LoopCondition(s.attempt)
    THEN [s EXCEPT !.pc = "done",
                   !.result = RetryExhaustedError(RunOpts, s.resp, NilErr)]
    ELSE IF o.err = NilErr /\ ~shouldRetry(o.resp, o.err)
    THEN [s EXCEPT !.pc = "done", !.requests = @ + 1, !.resp = o.resp,
                   !.hooks = Append(@, [slot |-> "SuccessHook",
                                        args |-> SuccessHookArgs(o.resp,
                                                                 RunOpts)]),
                   !.result = ReturnSuccess(o.resp)]
    ELSE IF LastAttempt(s.attempt)
    THEN [s EXCEPT !.pc = "done", !.requests = @ + 1, !.resp = o.resp,
                   !.result = RetryExhaustedError(RunOpts, o.resp, NilErr)]
    ELSE [s EXCEPT !.requests = @ + 1, !.resp = o.resp,
                   !.hooks = Append(@, [slot |-> "RetryHook",
                                        args |-> RetryHookArgs(s.attempt,
                                                               o.resp,
                                                               o.err)]),
                   !.waitTime = WaitTime(s.currentWait, j, o.resp),
                   !.currentWait =
                       GrownWait(s.currentWait,
                                 WaitTime(s.currentWait, j, o.resp)),
                   !.attempt = NextAttempt(@)]

InitTwoRuns ==
    /\ Init
    /\ h.MaxRetries \in {-1, MaxRetriesBound}
    /\ h.InitialWait \in {-11, 30}
    /\ h.MaxWait = 12
    /\ h.RetryOnStatus = DefaultRetryOnStatus
    /\ callerCtx = "nil"

\* Both executions enter doRequest.
RunsEnter ==
    /\ runs = NoRuns
    /\ runs' = [r \in RunIds |-> EnteredRun]
    /\ UNCHANGED <<h, pc, config, decision, callerCtx, ctxDone, opts,
                   bodyBytes, err, loopErr, resp, attempt, currentWait,
                   waitTime, result, bodyReads, entry, calls, instances,
                   invocation>>
    /\ HistoryUnchanged

\* Both executions go through one iteration, answered alike, each with
\* its own jitter.
RunsStep(o) ==
    /\ runs # NoRuns
    /\ \E r \in RunIds : runs[r].pc = "loop"
    /\ \E j1 \in JitterSet(runs[1].currentWait),
          j2 \in JitterSet(runs[2].currentWait) :
          runs' = [r \in RunIds |->
                      IF runs[r].pc # "loop" THEN runs[r]
                      ELSE RunStep(runs[r], o, IF r = 1 THEN j1 ELSE j2)]
    /\ UNCHANGED <<h, pc, config, decision, callerCtx, ctxDone, opts,
                   bodyBytes, err, loopErr, resp, attempt, currentWait,
                   waitTime, result, bodyReads, entry, calls, instances,
                   invocation>>
    /\ HistoryUnchanged

NextTwoRuns ==
    \/ RunsEnter
    \/ \E o \in RunOutcomes : RunsStep(o)

SpecTwoRuns == InitTwoRuns /\ [][NextTwoRuns]_vars

\* ------------------------------------------------- the caller's override
\* A tenth specification: after NewHTTPUtil has returned the caller goes on
\* writing to the override object it passed.  The scalar settings were
\* copied into the client; `defaults.RetryOnStatus = config.RetryOnStatus`
\* (client.go:128-130) copies the slice header only, so the client's
\* RetryOnStatus and the caller's are one array.
SharesArray == ~config.isNil /\ ~config.RetryOnStatus.isNil

\* A slice with element old overwritten by new.
WriteElement(vals, old, new) == (vals \ {old}) \cup {new}

\* The caller assigns config.RetryOnStatus[i] = new, old being there.
CallerWritesStatus(old, new) ==
    /\ pc = "constructed"
    /\ ~config.isNil
    /\ old \in config.RetryOnStatus.vals
    /\ config' = [config EXCEPT
                     !.RetryOnStatus.vals = WriteElement(@, old, new)]
    /\ h' = IF SharesArray
            THEN [h EXCEPT !.RetryOnStatus = WriteElement(@, old, new)]
            ELSE h
    /\ UNCHANGED <<pc, decision>>
    /\ RequestUnchanged

\* The caller assigns config.MaxRetries = v.
CallerWritesMaxRetries(v) ==
    /\ pc = "constructed"
    /\ ~config.isNil
    /\ config.MaxRetries # v
    /\ config' = [config EXCEPT !.MaxRetries = v]
    /\ UNCHANGED <<h, pc, decision>>
    /\ RequestUnchanged

NextCaller ==
    \/ NextClient
    \/ \E old \in {404, 500}, new \in {200} : CallerWritesStatus(old, new)
    \/ \E v \in {7} : CallerWritesMaxRetries(v)

SpecCaller == InitClient /\ [][NextCaller]_vars

\* ------------------------------------------------------------- the claims
\* Calls of h.Client.Do that have returned.
Completed == IF pc = "inflight" THEN requests - 1 ELSE requests

NeverCancelled == cancelAt.at = "never"

\* The latest attempt returned a response, no error, and a status outside
\* the configured retryable set.
LastOutcomeTerminal ==
    /\ Completed >= 1
    /\ lastOutcome.err = NilErr
    /\ ~lastOutcome.resp.isNil
    /\ lastOutcome.resp.StatusCode \notin h.RetryOnStatus

Succeeded(r) ==
    /\ pc = "done"
    /\ result.kind = "success"
    /\ result.resp = r
    /\ result.err = NilErr

Exhausted ==
    /\ pc = "done"
    /\ result.kind = "error"
    /\ result.err.type = "retry_exhausted"

Cancelled ==
    /\ pc = "done"
    /\ result.kind = "error"
    /\ result.err.type = "context cancelled during retry"
    /\ result.resp.isNil

Max(a, b) == IF a >= b THEN a ELSE b

\* C1: for every k in 0..MaxRetries, when the first k attempts ended in a
\* retryable outcome, the context was never cancelled and attempt k+1
\* returned a response with a non-retryable status, doRequest has returned
\* that response with a nil error after exactly k+1 HTTP requests.
C1_SuccessAfterKRetries ==
    \A k \in 0 .. h.MaxRetries :
        (/\ Completed = k + 1
         /\ retryable = k
         /\ NeverCancelled
         /\ LastOutcomeTerminal)
        => (Succeeded(lastOutcome.resp) /\ requests = k + 1)

C1_Witness ==
    /\ h.MaxRetries = 2
    /\ retryable = 2
    /\ requests = 3
    /\ NeverCancelled
    /\ Succeeded(Response(200, <<>>))

\* C2: when each of the MaxRetries+1 attempts ended in a retryable outcome
\* and the context was never cancelled, doRequest has returned a
\* RetryExhaustedError with Attempts = MaxRetries+1, LastStatus the status
\* of the final attempt's response, and the request's URL and Method.
C2_ExhaustedAfterAllAttempts ==
    (/\ Completed >= 1
     /\ Completed = h.MaxRetries + 1
     /\ retryable = h.MaxRetries + 1
     /\ NeverCancelled)
    => /\ Exhausted
       /\ result.Attempts = h.MaxRetries + 1
       /\ ~lastOutcome.resp.isNil
            => result.LastStatus = lastOutcome.resp.StatusCode
       /\ result.URL = opts.URL
       /\ result.Method = opts.Method

C2_Witness ==
    /\ h.MaxRetries = 1
    /\ NeverCancelled
    /\ Exhausted
    /\ requests = 2
    /\ result.Attempts = 2
    /\ result.LastStatus = 500
    /\ result.URL = "http://example.com"
    /\ result.Method = "GET"

\* C3: in an exhausted call whose final attempt failed with a transport
\* error, LastError is that error; the synthesized "unknown error after N
\* attempts" appears only when the final attempt produced no error.
C3_LastErrorIsFinalTransportError ==
    Exhausted =>
        /\ lastOutcome.err # NilErr => result.LastError = lastOutcome.err
        /\ result.LastError.type = "unknown error after attempts"
             => lastOutcome.err = NilErr

\* C4: in every state of a call the attempt counter only grows, by one per
\* loop iteration, and the number of HTTP requests executed so far is at
\* most MaxRetries+1.
C4_AttemptsBoundedByMaxRetriesPlusOne ==
    /\ [](pc # "idle" => requests <= h.MaxRetries + 1)
    /\ [][attempt' = attempt \/ attempt' = attempt + 1]_vars

\* C4 as amended: the attempt counter only grows, by one per loop
\* iteration, and the number of HTTP requests executed so far is at most
\* MaxRetries+1, or zero when MaxRetries+1 is negative.
C4_AttemptsBounded ==
    /\ [](pc # "idle" => requests <= Max(0, h.MaxRetries + 1))
    /\ [](pc \in {"inflight", "select", "blocked"} => requests = attempt + 1)
    /\ [][attempt' = attempt \/ attempt' = attempt + 1]_vars

C4_Witness ==
    /\ h.MaxRetries = 2
    /\ attempt = 2
    /\ requests = 3
    /\ pc = "inflight"

\* C5: every wait that elapsed between two attempts is >= 0 and <= MaxWait,
\* unless the preceding response was a 429 and the rate-limit wait was the
\* one chosen.
C5_WaitWithinMaxWait ==
    (waited.valid /\ ~waited.rateLimited)
    => (0 <= waited.dur /\ waited.dur <= h.MaxWait)

\* C5 as amended: with InitialWait and MaxWait non-negative (and small
\* enough that base wait plus jitter stays in the Duration range), every
\* wait that elapsed between two attempts is >= 0 and at most the larger of
\* InitialWait and MaxWait plus a jitter of up to a tenth of it, unless the
\* preceding response was a 429 and the rate-limit wait was the one chosen.
C5_WaitWithinJitteredBound ==
    (/\ waited.valid
     /\ ~waited.rateLimited
     /\ h.InitialWait >= 0
     /\ h.MaxWait >= 0
     /\ 11 * Max(h.InitialWait, h.MaxWait) <= 10 * MaxInt64)
    => /\ 0 <= waited.dur
       /\ 10 * waited.dur <= 11 * Max(h.InitialWait, h.MaxWait)

C5_Witness ==
    /\ waited.valid
    /\ ~waited.rateLimited
    /\ h.InitialWait >= 0
    /\ h.InitialWait <= h.MaxWait
    /\ waited.dur > h.MaxWait

\* C6: after a 429 whose Retry-After header carries the integer N, the
\* wait that elapsed before the next attempt is at least N seconds.
C6_WaitAtLeastRetryAfter ==
    (/\ waited.valid
     /\ waited.status = StatusTooManyRequests
     /\ waited.retryAfter # <<>>
     /\ Atoi(waited.retryAfter).ok)
    => waited.dur >= Atoi(waited.retryAfter).val * Second

\* C7: once the context became done while the call was in its
\* inter-attempt wait, no further HTTP attempt and no further hook call
\* happens, and the call returns a nil response and the cancellation
\* error; for every wait duration, zero and negative ones included.
C7_CancelDuringWaitAborts ==
    cancelAt.at \in {"select", "blocked"}
    => /\ requests = cancelAt.requests
       /\ Hooks = cancelAt.hooks
       /\ pc \in {"select", "done"}
       /\ pc = "done" => Cancelled

\* C8: once the context became done during the in-flight HTTP call of an
\* attempt, the last allowed one included, no later attempt is started and
\* the call ends with a cancellation error, never a success or a
\* retry-exhaustion error.
C8_CancelInFlightEndsCancelled ==
    cancelAt.at = "inflight"
    => /\ requests = cancelAt.requests
       /\ pc = "done" => Cancelled

\* C9: a call whose context was done before doRequest was entered never
\* returns a success: it returns a non-nil error and the success hook is
\* not called.
C9_DoneContextNeverSucceeds ==
    cancelAt.at = "idle"
    => /\ successHookCalls = 0
       /\ pc = "done" => (result.kind = "error" /\ result.err # NilErr)

C9_Witness ==
    /\ cancelAt.at = "idle"
    /\ pc = "done"
    /\ requests >= 1
    /\ lastOutcome = ContextOutcome

\* C10: when an attempt returned no error and a status outside the
\* retryable set, 4xx and 5xx included, doRequest has returned that
\* response with a nil error right after that attempt: the retry hook was
\* not called for it, no wait and no further attempt follows.
C10_NonRetryableStatusIsTerminal ==
    LastOutcomeTerminal
    => /\ Succeeded(lastOutcome.resp)
       /\ Len(retryHookLog) = requests - 1
       /\ retryable = requests - 1
       /\ successHookCalls = 1

C10_Witness ==
    /\ Succeeded(Response(404, <<>>))
    /\ requests = 2
    /\ retryHookLog = <<0>>

\* C11: a call made with an empty method or an empty URL has returned a
\* validation error and a nil response, without any HTTP request, any hook
\* call, any wait, or any read of the caller's body reader.
C11_ValidationErrorDoesNothing ==
    (pc # "idle" /\ (opts.Method = "" \/ opts.URL = ""))
    => /\ pc = "done"
       /\ result.kind = "error"
       /\ result.err.type \in {"method cannot be empty",
                               "URL cannot be empty"}
       /\ result.resp.isNil
       /\ requests = 0
       /\ sent = <<>>
       /\ Hooks = 0
       /\ ~retryHookCall.called /\ ~successHookCall.called
       /\ attempt = 0 /\ waitTime = 0 /\ ~waited.valid
       /\ bodyReads = 0

C11_Witness ==
    /\ pc = "done"
    /\ opts.Method = "GET"
    /\ opts.URL = ""
    /\ ~opts.Body.isNil
    /\ result.err.type = "URL cannot be empty"
    /\ bodyReads = 0

\* C12: every call of h.shouldRetry(resp, err) returns (err is non-nil) or
\* (resp.StatusCode is in the client's retryable set): true for every
\* non-nil error whatever the response; with the default set, true for
\* 408, 429, 500, 502, 503, 504 and false for 200 and 404.
C12_ShouldRetryIsErrorOrListedStatus ==
    decision.called
    => /\ decision.retry = (\/ decision.err # NilErr
                            \/ decision.resp.StatusCode \in h.RetryOnStatus)
       /\ decision.err # NilErr => decision.retry
       /\ (h.RetryOnStatus = {408, 429, 500, 502, 503, 504}
           /\ decision.err = NilErr)
          => /\ decision.resp.StatusCode \in {408, 429, 500, 502, 503, 504}
                  => decision.retry
             /\ decision.resp.StatusCode \in {200, 404} => ~decision.retry

C12_Witness ==
    /\ config.isNil
    /\ decision.called
    /\ decision.resp = Response(200, <<>>)
    /\ decision.err = Err("transport", 0)
    /\ decision.retry

\* C13: the caller's body reader is read once, at entry, and never again;
\* the request of every attempt, the first and each retry, carries exactly
\* the bytes captured then, and an empty body when the call has no body.
C13_BodyReadOnceAndResentIdentical ==
    /\ bodyReads <= 1
    /\ (pc # "idle" /\ opts.Method # "" /\ opts.URL # "")
       => bodyReads = (IF opts.Body.isNil THEN 0 ELSE 1)
    /\ Len(sent) = requests
    /\ \A i \in 1 .. Len(sent) :
          /\ ~opts.Body.isNil
               => (~bodyBytes.isNil /\ bodyBytes.data = opts.Body.data
                   /\ sent[i].Body = bodyBytes.data)
          /\ opts.Body.isNil => sent[i].Body = <<>>

C13_Witness ==
    /\ requests = 3
    /\ bodyReads = 1
    /\ \A i \in 1 .. 3 : sent[i].Body = <<1, 2>>

\* C14: for every configuration, the base (pre-jitter) wait in use while a
\* call waits before a retry never exceeds MaxWait, and the base wait of
\* the next retry is never below that of the retry before it.
C14_BaseWaitMonotoneAndCapped ==
    /\ [](pc \in {"select", "blocked"} => currentWait <= h.MaxWait)
    /\ [][(pc \in {"select", "blocked"} /\ pc' = "loop"
           /\ attempt' < h.MaxRetries)
          => currentWait' >= currentWait]_vars

\* C15: the wait that elapsed after a retried 429 response is the larger of
\* the jittered backoff and the rate-limit wait, the latter being the
\* Retry-After value in seconds when the header parses as an integer and
\* 60 seconds when it is absent or does not parse.
C15_RateLimitWaitIsMaxOfBoth ==
    (waited.valid /\ waited.status = StatusTooManyRequests)
    => LET a == Atoi(waited.retryAfter)
           rateLimitWait == IF waited.retryAfter # <<>> /\ a.ok
                            THEN a.val * Second
                            ELSE 60 * Second
       IN /\ waited.dur >= rateLimitWait
          /\ \E j \in JitterSet(waited.base) :
                waited.dur = Max(waited.base + j, rateLimitWait)

\* The value the constructed client holds for the configuration field f.
ResolvedField(f) ==
    CASE f = "ClientTimeout" -> h.Client.Timeout
      [] f = "MaxRetries" -> h.MaxRetries
      [] f = "InitialWait" -> h.InitialWait
      [] f = "MaxWait" -> h.MaxWait
      [] OTHER -> h.Client.Transport[f]

\* C16: the client NewHTTPUtil returns holds, for a nil override, the
\* default of every field (MaxRetries 5, InitialWait 5s, MaxWait 60s,
\* ClientTimeout 10m, and so on); for a non-nil override, the default of
\* every numeric or duration field the override leaves zero and of a nil
\* retryable-status list, and the override's value of every other one.
C16_ConfigIsOverlayOnDefaults ==
    pc = "constructed"
    => /\ config.isNil
          => /\ h.MaxRetries = 5
             /\ h.InitialWait = 5 * Second
             /\ h.MaxWait = 60 * Second
             /\ h.Client.Timeout = 10 * 60 * Second
             /\ \A f \in NumericFields :
                   ResolvedField(f) = DefaultHTTPConfig[f]
             /\ h.RetryOnStatus = DefaultRetryOnStatus
       /\ ~config.isNil
          => /\ \A f \in NumericFields :
                   ResolvedField(f) = IF config[f] = 0
                                      THEN DefaultHTTPConfig[f]
                                      ELSE config[f]
             /\ h.RetryOnStatus = IF config.RetryOnStatus.isNil
                                  THEN DefaultRetryOnStatus
                                  ELSE config.RetryOnStatus.vals

C16_Witness ==
    /\ pc = "constructed"
    /\ ~config.isNil
    /\ config.MaxRetries = 3
    /\ config.InitialWait = 0
    /\ config.RetryOnStatus = Slice({})
    /\ h.MaxRetries = 3
    /\ h.InitialWait = 5 * Second
    /\ h.RetryOnStatus = {}

C18_NoRangeValidation ==
    /\ pc = "new" => \A c \in Configs : ENABLED Construct(c)
    /\ (pc = "constructed" /\ ~config.isNil)
       => \A f \in NumericFields :
             config[f] # 0 => ResolvedField(f) = config[f]

C18_Witness ==
    /\ pc = "constructed"
    /\ config.MaxRetries = -1
    /\ config.InitialWait = -Second
    /\ h.MaxRetries = -1
    /\ h.InitialWait = -Second

\* C19: the success hook is called at most once in a call, and not before
\* the step that returns; a finished call has called it exactly when it
\* returned a response with a nil error, and then with that response and
\* the call's request options; a call that ended in a validation error, a
\* request-construction error, a cancellation or an exhaustion has not
\* called it.
C19_SuccessHookOnceIffSuccess ==
    /\ successHookCalls <= 1
    /\ successHookCall.called = (successHookCalls = 1)
    /\ pc # "done" => successHookCalls = 0
    /\ pc = "done"
       => ((result.kind = "success" /\ result.err = NilErr
            /\ ~result.resp.isNil)
           <=> successHookCalls = 1)
    /\ successHookCalls = 1
       => /\ successHookCall.resp = result.resp
          /\ successHookCall.opts = opts
    /\ (pc = "done"
        /\ result.err.type \in {"method cannot be empty",
                                "URL cannot be empty",
                                "failed to read request body",
                                "failed to create request",
                                "context cancelled during retry",
                                "retry_exhausted"})
       => successHookCalls = 0

C19_Witness ==
    /\ Succeeded(Response(404, <<>>))
    /\ requests = 3
    /\ successHookCalls = 1
    /\ successHookCall.resp = Response(404, <<>>)
    /\ successHookCall.opts.URL = "http://example.com"
    /\ ~successHookCall.opts.Body.isNil

\* C20: the retry hook is called exactly once in the step that ends an
\* attempt with a retryable outcome when that attempt is not the last
\* allowed one, and in no other step; it gets the attempt's zero-based
\* index, its response (or nil) and its error (or nil), and the wait starts
\* after it; a call that ended in exhaustion with MaxRetries >= 0 has
\* called it MaxRetries times, with the indices 0 .. MaxRetries-1 in order.
C20_RetryHookPerRetryableNonLastAttempt ==
    /\ [](\A i \in 1 .. Len(retryHookLog) : retryHookLog[i] = i - 1)
    /\ [](pc \in {"loop", "inflight"} => Len(retryHookLog) = attempt)
    /\ [](pc \in {"select", "blocked"}
          => /\ Len(retryHookLog) = attempt + 1
             /\ retryHookCall
                  = [called |-> TRUE, attempt |-> attempt,
                     resp |-> lastOutcome.resp, err |-> lastOutcome.err]
             /\ RetryableOutcome(lastOutcome)
             /\ attempt < h.MaxRetries)
    /\ []((Exhausted /\ h.MaxRetries >= 0)
          => Len(retryHookLog) = h.MaxRetries)
    /\ [][(pc = "inflight" /\ pc' # "inflight")
          => /\ Len(retryHookLog') = Len(retryHookLog) + 1
                  <=> (RetryableOutcome(lastOutcome')
                       /\ attempt < h.MaxRetries)
             /\ Len(retryHookLog') = Len(retryHookLog) + 1
                  => pc' = "select"
             /\ Len(retryHookLog') # Len(retryHookLog) + 1
                  => retryHookLog' = retryHookLog]_vars
    /\ [][pc # "inflight" => retryHookLog' = retryHookLog]_vars

C20_Witness ==
    /\ Exhausted
    /\ h.MaxRetries = 2
    /\ requests = 3
    /\ retryHookLog = <<0, 1>>
    /\ lastOutcome.err = Err("transport", 0)

\* C21: in a request started after SetRetryHook(f) or SetSuccessHook(g)
\* returned, every retry hook call is a call of the function the latest
\* SetRetryHook installed, every success hook call a call of the one the
\* latest SetSuccessHook installed, and no other function is called.
C21_InstalledHookIsTheOneInvoked ==
    /\ \A call \in hooksInvoked : call[2] = h[call[1]]
    /\ Len(retryHookLog) >= 1 => <<"RetryHook", h.RetryHook>> \in hooksInvoked
    /\ successHookCalls >= 1
         => <<"SuccessHook", h.SuccessHook>> \in hooksInvoked

C21_Witness ==
    /\ h.RetryHook = "f"
    /\ h.SuccessHook = "g"
    /\ Succeeded(Response(200, <<>>))
    /\ hooksInvoked = {<<"RetryHook", "f">>, <<"SuccessHook", "g">>}

\* C22: within a call the attempts are sequential: the request of an
\* attempt is in flight only while the call is in h.Client.Do for it, one
\* request is sent per step, and the request of attempt N+1 is sent only
\* when attempt N has returned, the retry hook has been called for it and
\* the wait chosen after it has elapsed.
C22_AttemptsAreSequential ==
    /\ [](pc = "inflight" => (requests = attempt + 1 /\ Len(sent) = requests))
    /\ [][requests' = requests \/ requests' = requests + 1]_vars
    /\ [][requests' = requests + 1
          => /\ pc = "loop" /\ pc' = "inflight"
             /\ attempt = requests
             /\ requests >= 1
                  => /\ RetryableOutcome(lastOutcome)
                     /\ Len(retryHookLog) = requests
                     /\ waited.valid]_vars

C22_Witness ==
    /\ pc = "inflight"
    /\ attempt = 2
    /\ requests = 3
    /\ retryHookLog = <<0, 1>>
    /\ lastOutcome.resp.StatusCode = StatusTooManyRequests

\* C23: a call whose request could not be built for an attempt (a
\* malformed URL) has returned, at once, a nil response and the error
\* wrapping the construction failure: no request was sent for that
\* attempt, no hook was called for it, no wait was taken after it and no
\* later attempt was made.
C23_ConstructionErrorIsFatal ==
    /\ (pc = "done" /\ result.err.type = "failed to create request")
       => /\ result.kind = "error"
          /\ result.resp.isNil
          /\ loopErr = Err("parse", 0)
          /\ requests = attempt /\ Len(sent) = attempt
          /\ Len(retryHookLog) = attempt /\ ~retryHookCall.called
          /\ successHookCalls = 0
          /\ waitTime = 0 /\ ~waited.valid
    /\ (opts.URL = "://invalid-url" /\ opts.Method # ""
        /\ pc \notin {"idle", "loop"})
       => /\ pc = "done"
          /\ requests = 0 /\ Hooks = 0 /\ attempt = 0
          /\ result.kind = "error"
          /\ h.MaxRetries >= 0
               => result.err.type \in {"failed to create request",
                                       "failed to read request body"}

C23_Witness ==
    /\ pc = "done"
    /\ result.err.type = "failed to create request"
    /\ h.MaxRetries = 2
    /\ bodyReads = 1
    /\ requests = 0

\* C24: for every MaxRetries, zero and negative included, a call that
\* returned a RetryExhaustedError has executed at least one HTTP attempt,
\* each executed attempt ended in a retryable outcome, and the error's
\* Attempts is the number of HTTP attempts executed.
C24_ExhaustedOnlyAfterRealAttempts ==
    Exhausted
    => /\ requests >= 1
       /\ retryable = requests
       /\ result.Attempts = requests

\* C25: in a returned RetryExhaustedError, LastStatus is the status of the
\* most recent response any attempt of the call obtained, also when a later
\* attempt failed without a response, and 0 only when no attempt obtained
\* a response.
C25_LastStatusIsLatestResponseStatus ==
    Exhausted
    => /\ result.LastStatus = 0 => lastStatus = 0
       /\ lastStatus # 0 => result.LastStatus = lastStatus

\* The terminal outcomes of a call.
TerminalSuccess == result.kind = "success" /\ result.err = NilErr
TerminalExhaustion == result.kind = "error"
                      /\ result.err.type = "retry_exhausted"
TerminalCancellation == result.kind = "error"
                        /\ result.err.type = "context cancelled during retry"
TerminalValidation == result.kind = "error"
                      /\ result.err.type \in {"method cannot be empty",
                                              "URL cannot be empty"}
TerminalConstruction == result.kind = "error"
                        /\ result.err.type = "failed to create request"
TerminalBodyRead == result.kind = "error"
                    /\ result.err.type = "failed to read request body"

\* Once the call has returned nothing more happens in it.
NothingAfterReturn ==
    pc = "done"
    => UNCHANGED <<pc, result, requests, sent, retryHookLog,
                   successHookCalls, hooksInvoked, attempt, waitTime,
                   waited>>

\* C26: every call of doRequest eventually returns, with exactly one of
\* the outcomes success, exhaustion, cancellation, validation error and
\* request-construction error, and after the return no attempt, wait or
\* hook call follows.
C26_TerminatesInOneOfFiveOutcomes ==
    /\ (pc # "idle") ~> (pc = "done")
    /\ [](pc = "done"
          => Cardinality({k \in 1 .. 5 :
                 <<TerminalSuccess, TerminalExhaustion,
                   TerminalCancellation, TerminalValidation,
                   TerminalConstruction>>[k]}) = 1)
    /\ [][NothingAfterReturn]_vars

\* C26 as amended: every call of doRequest eventually returns, with
\* exactly one of the outcomes success, exhaustion, cancellation,
\* validation error, body-read error and request-construction error, and
\* after the return no attempt, wait or hook call follows.  (What makes it
\* return: every wait that elapses advances the attempt counter, and the
\* counter of a running call stays within MaxRetries.)
C26_TerminatesInOneOutcome ==
    /\ (pc # "idle") ~> (pc = "done")
    /\ [][(pc \in {"select", "blocked"} /\ pc' = "loop")
          => attempt' > attempt]_vars
    /\ [](pc \in {"inflight", "select", "blocked"}
          => attempt <= h.MaxRetries)
    /\ [](pc = "done"
          => Cardinality({k \in 1 .. 6 :
                 <<TerminalSuccess, TerminalExhaustion,
                   TerminalCancellation, TerminalValidation,
                   TerminalConstruction, TerminalBodyRead>>[k]}) = 1)
    /\ [](pc # "done" => result = NoResult)
    /\ [][NothingAfterReturn]_vars

C26_Witness ==
    /\ pc = "done"
    /\ TerminalBodyRead
    /\ bodyReads = 1
    /\ requests = 0

\* The base wait a call running alone has at its n-th retry.
RECURSIVE BaseWaitAlone(_)
BaseWaitAlone(n) ==
    IF n <= 0 THEN h.InitialWait ELSE NextWait(BaseWaitAlone(n - 1))

\* The locals and the outcome of call c are what its own inputs and its
\* own per-attempt outcomes make them in a call running alone.
AsIfAlone(c) ==
    LET s == calls[c]
    IN /\ s.pc # "idle"
          => /\ s.bodyBytes.isNil = s.body.isNil
             /\ s.bodyBytes.data = s.body.data
             /\ s.currentWait = BaseWaitAlone(s.attempt)
       /\ s.pc = "loop" => s.requests = s.attempt
       /\ s.pc \in {"inflight", "waiting"} => s.requests = s.attempt + 1
       /\ s.pc = "waiting"
          => (RetryableOutcome(s.last) /\ s.attempt < h.MaxRetries)
       /\ s.pc # "done" => s.kind = "none"
       /\ (s.pc = "done" /\ s.kind = "success")
          => /\ ~RetryableOutcome(s.last)
             /\ s.resp = s.last.resp
             /\ s.requests = s.attempt + 1
       /\ (s.pc = "done" /\ s.kind = "exhausted")
          => /\ s.requests = Max(0, h.MaxRetries + 1)
             /\ s.requests >= 1 => RetryableOutcome(s.last)
       /\ (s.pc = "done" /\ s.kind = "cancelled")
          => /\ s.ctxDone
             /\ RetryableOutcome(s.last)
             /\ s.requests = s.attempt + 1

\* C27: with two calls running concurrently on one client, in every
\* interleaving, each call's attempt counter, base wait, body snapshot and
\* outcome are those of that call running alone against the same
\* per-attempt outcomes, and a step of one call (an attempt, a wait, a
\* cancellation) leaves the other call and the client as they are.
C27_ConcurrentCallsAreIndependent ==
    /\ [](\A c \in CallIds : AsIfAlone(c))
    /\ [][/\ h' = h
          /\ \A c, d \in CallIds :
                (c # d /\ calls'[c] # calls[c]) => calls'[d] = calls[d]]_vars

C27_Witness ==
    /\ h.MaxRetries = 2
    /\ calls[1].pc = "done" /\ calls[1].kind = "cancelled"
    /\ calls[1].attempt = 0
    /\ calls[2].pc = "waiting"
    /\ calls[2].attempt = 1
    /\ calls[2].currentWait = 16
    /\ ~calls[2].ctxDone

\* The method the claim gives each entry point.
MethodOfEntryPoint(point) ==
    CASE point = "Get" -> "GET"
      [] point = "Post" -> "POST"
      [] point = "Put" -> "PUT"
      [] point = "Patch" -> "PATCH"
      [] point = "Delete" -> "DELETE"

JitteredBackoff(c) == {WrapInt64(c + j) : j \in JitterSet(c)}

\* C29: after a retryable outcome whose status is not 429 (a 408, 500,
\* 502, 503 or 504 response, or a transport error) the wait is the
\* jittered backoff, whatever Retry-After header the response carried;
\* only a 429 response lets the rate-limit wait replace it.
C29_RetryAfterOnlyOn429 ==
    /\ (pc \in {"select", "blocked"}
        /\ (resp.isNil \/ resp.StatusCode # StatusTooManyRequests))
       => /\ ~rateLimited
          /\ waitTime \in JitteredBackoff(currentWait)
    /\ (waited.valid /\ waited.status # StatusTooManyRequests)
       => /\ ~waited.rateLimited
          /\ waited.dur \in JitteredBackoff(waited.base)
    /\ (waited.valid /\ waited.rateLimited)
       => waited.status = StatusTooManyRequests

C29_Witness ==
    /\ waited.valid
    /\ waited.status = 500
    /\ waited.retryAfter = <<"7">>
    /\ waited.base = 11
    /\ waited.dur < 7 * Second

\* C30: each invocation of the default retry hook records the attempt
\* number, the configured maximum retries, the wait computed for the
\* upcoming retry (the duration the call is about to wait), and the error
\* and the status when present.
C30_DefaultRetryHookLogsUpcomingWait ==
    (pc \in {"select", "blocked"} /\ logFields.logged)
    => /\ logFields.attempt = attempt + 1
       /\ logFields.max = h.MaxRetries
       /\ logFields.wait = waitTime
       /\ logFields.hasError = (lastOutcome.err # NilErr)
       /\ logFields.hasError => logFields.error = lastOutcome.err
       /\ logFields.hasStatus = ~lastOutcome.resp.isNil
       /\ logFields.hasStatus
          => logFields.status = lastOutcome.resp.StatusCode

CallerHeader(m) ==
    [n \in {CanonicalMIMEHeaderKey(p[1]) : p \in m} |->
        (CHOOSE p \in m : CanonicalMIMEHeaderKey(p[1]) = n)[2]]

\* No two names of the header map m are the same HTTP header name.
DistinctHeaderNames(m) ==
    \A p, q \in m :
       CanonicalMIMEHeaderKey(p[1]) = CanonicalMIMEHeaderKey(q[1]) => p = q

\* What every request of the call carries when built from the caller's
\* method, URL, header map and context.
BuiltFromCallerArguments ==
    \A i \in 1 .. Len(sent) :
       /\ sent[i].Method = entry.options.Method
       /\ sent[i].URL = entry.url
       /\ sent[i].Header = sent[1].Header
       /\ Cardinality(DOMAIN sent[i].Header) = Cardinality(entry.headers)
       /\ \A p \in entry.headers :
             sent[i].Header[CanonicalMIMEHeaderKey(p[1])] = p[2]
       /\ sent[i].Context =
             (IF entry.ctx = "nil" THEN "background" ELSE entry.ctx)

\* C32: every attempt of a call is built from the same method, the same
\* URL and the complete header map the caller supplied, bound to the call's
\* context (a background context when the caller supplied none): attempt k
\* carries the method, URL and caller headers attempt 0 carried.
C32_EveryAttemptBuiltAlike ==
    entry.point \in EntryPoints => BuiltFromCallerArguments

\* C32 as amended: when no two names of the caller's header map are the
\* same HTTP header name, every attempt of a call is built from the same
\* method, the same URL and the complete header map, bound to the call's
\* context (a background context when the caller supplied none).
C32_EveryAttemptBuiltAlikeDistinctNames ==
    (entry.point \in EntryPoints /\ DistinctHeaderNames(entry.headers))
    => BuiltFromCallerArguments

C32_Witness ==
    /\ entry.point = "Post"
    /\ entry.headers = {<<"Accept", "application/json">>}
    /\ entry.ctx = "nil"
    /\ Len(sent) = 2
    /\ sent[2].Header = sent[1].Header
    /\ sent[2].Context = "background"

\* C33: no step of doRequest, whatever the outcome of the call, changes
\* the client's MaxRetries, InitialWait, MaxWait, retryable statuses,
\* RetryHook or SuccessHook.
C33_CallLeavesClientUnchanged ==
    [][/\ h'.MaxRetries = h.MaxRetries
       /\ h'.InitialWait = h.InitialWait
       /\ h'.MaxWait = h.MaxWait
       /\ h'.RetryOnStatus = h.RetryOnStatus
       /\ h'.RetryHook = h.RetryHook
       /\ h'.SuccessHook = h.SuccessHook]_vars

C33_Witness ==
    /\ pc = "done"
    /\ Exhausted
    /\ requests = 3
    /\ currentWait # h.InitialWait
    /\ Len(retryHookLog) = 2

\* C34: hooks are state of one client: replacing a hook on one client
\* changes nothing of any other client, a request on a client calls the
\* hook that client holds, and a default hook logs through the logger and
\* the configuration of the client it was set on.
C34_HooksArePerInstance ==
    /\ [][\A i, j \in DOMAIN instances :
             (i # j /\ instances'[j] # instances[j])
             => instances'[i] = instances[i]]_vars
    /\ [][invocation' # invocation
          => LET i == invocation'.instance
             IN /\ invocation'.hook = instances[i][invocation'.slot]
                /\ invocation'.hook = "default"
                   => invocation'.logger = instances[i].Logger
                /\ (invocation'.hook = "default"
                    /\ invocation'.slot = "RetryHook")
                   => invocation'.max = instances[i].MaxRetries]_vars

C34_Witness ==
    /\ DOMAIN instances = InstanceIds
    /\ instances[1].RetryHook = "f"
    /\ instances[2].RetryHook = "default"
    /\ instances[1].Logger # instances[2].Logger
    /\ instances[1].MaxRetries # instances[2].MaxRetries
    /\ invocation.instance = 2
    /\ invocation.slot = "RetryHook"
    /\ invocation.hook = "default"
    /\ invocation.logger = instances[2].Logger

\* C35: every return of doRequest yields exactly one of a response and an
\* error: a non-nil response with a nil error, or a nil response with a
\* non-nil error; a call ending in retry exhaustion returns a nil response.
C35_ResponseOrErrorNeverBoth ==
    pc = "done"
    => /\ (~result.resp.isNil) # (result.err # NilErr)
       /\ Exhausted => result.resp.isNil

\* C36: after any calls of SetRetryHook and SetSuccessHook, nil arguments
\* included, a request never calls a nil hook and ends in a normal success
\* or error outcome.
C36_NilHookNeverInvoked ==
    /\ \A call \in hooksInvoked : call[2] # "nil"
    /\ pc = "done" => result.kind \in {"success", "error"}

\* C37: two executions of doRequest with the same configuration, the same
\* request, the same outcome of each attempt and no cancellation execute
\* the same number of attempts, call the same hooks with the same
\* arguments in the same order and return the same result, whatever
\* jitter each draws; only the waits taken may differ.
C37_OutcomeIndependentOfJitter ==
    runs # NoRuns
    => /\ runs[1].pc = runs[2].pc
       /\ runs[1].attempt = runs[2].attempt
       /\ runs[1].requests = runs[2].requests
       /\ runs[1].hooks = runs[2].hooks
       /\ runs[1].result = runs[2].result
       /\ runs[1].currentWait = runs[2].currentWait

C37_Witness ==
    /\ runs # NoRuns
    /\ runs[1].waitTime # runs[2].waitTime
    /\ runs[1].pc = "done"
    /\ runs[1].requests = 3
    /\ Len(runs[1].hooks) = 2
    /\ runs[1].result = runs[2].result

\* C38: the client's settings are fixed at construction: NewHTTPUtil
\* leaves the override object as it was given, and whatever the caller
\* writes to that object afterwards, elements of its retryable-status list
\* included, the client's settings and the statuses it retries stay what
\* they were when NewHTTPUtil returned.
C38_ClientFixedAtConstruction ==
    /\ [][pc = "new" /\ pc' = "constructed"
          => \E c \in Configs : config' = c /\ h' = NewHTTPUtil(c)]_vars
    /\ [][pc = "constructed" => h' = h]_vars

\* next is min(1.5 * prev, MaxWait) as a time.Duration, the product cut
\* to a whole unit towards zero.
IsGrownBase(prev, next) ==
    IF 3 * prev > 2 * h.MaxWait THEN next = h.MaxWait
    ELSE IF prev >= 0 THEN 2 * next <= 3 * prev /\ 3 * prev < 2 * next + 2
    ELSE 3 * prev <= 2 * next /\ 2 * next - 2 < 3 * prev

\* C39: the base wait of the first retry is InitialWait, and after each
\* wait that elapses the next base wait is min(1.5 * previous base wait,
\* MaxWait), computed from the previous base wait and not from the
\* jittered or rate-limit wait that was taken.
C39_BaseWaitGrowsFromBaseWait ==
    /\ []((pc \in {"loop", "inflight", "select", "blocked"} /\ attempt = 0)
          => currentWait = h.InitialWait)
    /\ [](waited.valid
          => /\ IsGrownBase(waited.base, currentWait)
             /\ attempt = 1 => waited.base = h.InitialWait)
    /\ [][(pc \in {"select", "blocked"} /\ pc' = "loop")
          => IsGrownBase(currentWait, currentWait')]_vars

C39_Witness ==
    /\ waited.valid
    /\ waited.rateLimited
    /\ waited.base = 16
    /\ waited.status = StatusTooManyRequests
    /\ waited.dur = 17 * Second
    /\ currentWait = 24
    /\ attempt = 2

====
